---- MODULE Spec2Model ----
(***************************************************************************)
(* The trade-ingestion hook useCurveTrades of                              *)
(* frontend/src/lib/chart/CurveTradesChart.tsx as a state machine: one     *)
(* hook instance (its React state, its refs), the browser's localStorage,  *)
(* the chain it reads, and the refresh cycle fetchTrades with one step per *)
(* suspension point (each await).                                          *)
(*                                                                         *)
(* Modelling notes.                                                        *)
(*  - An entity key stands for the pair (chainId, lowercase campaign        *)
(*    address); the keys of the model live on one chain.                   *)
(*  - getReadProvider never returns a falsy value (it returns a provider   *)
(*    or throws), so the `if (!readProvider) return` guards are dead.      *)
(*  - The chain is append only: the head only grows and the logs of a      *)
(*    block never change (no reorganisation).                              *)
(*  - findContractDeployBlock only reads the chain, so its sequence of     *)
(*    getCode awaits is one step whose result is computed as the loop      *)
(*    computes it.                                                         *)
(*  - After Promise.all rejects, the other getLogsChunked keeps running in *)
(*    the background; it only issues reads whose results are dropped, and  *)
(*    is not modelled after the rejection.                                 *)
(*  - One hook instance is modelled at a time: a new mount happens after   *)
(*    the cycle of the unmounted instance has settled.                     *)
(***************************************************************************)
EXTENDS Integers, Sequences, FiniteSets, TLC

--------------------------------------------------------------------------
(* Bounds and the environment the hook runs against                       *)

\* number of chain heads (of ChainHeads) the chain walks through
MaxHeadIdx == 3

\* the head block numbers the chain passes through, in order
ChainHeads == <<1000, 1004, 1600, 1612, 1630>>

\* entity keys (campaign addresses, lowercase) and the absent address
Keys == {"a", "b"}
NoKey == "none"

\* first block at which the campaign contract has code
DeployedAt == [a |-> 996, b |-> 1010]

\* the TokensPurchased / TokensSold logs on the chain, in chain order
\* (ok = FALSE: a log iface.parseLog cannot decode)
ChainLogSeq ==
  << [address |-> "a", topic |-> "buy",  blockNumber |-> 998,  index |-> 0, transactionHash |-> "t1", ok |-> TRUE],
     [address |-> "a", topic |-> "sell", blockNumber |-> 1002, index |-> 0, transactionHash |-> "t2", ok |-> TRUE],
     [address |-> "a", topic |-> "buy",  blockNumber |-> 1002, index |-> 1, transactionHash |-> "t2", ok |-> TRUE],
     [address |-> "b", topic |-> "buy",  blockNumber |-> 1012, index |-> 2, transactionHash |-> "t3", ok |-> TRUE],
     [address |-> "b", topic |-> "buy",  blockNumber |-> 1013, index |-> 0, transactionHash |-> "t4", ok |-> FALSE],
     [address |-> "a", topic |-> "sell", blockNumber |-> 1601, index |-> 0, transactionHash |-> "t5", ok |-> TRUE] >>

Topics == {"buy", "sell"}

--------------------------------------------------------------------------
(* Program constants                                                      *)

Null == -1                    \* a ref holding null / an absent storage entry
LOG_CHUNK_SIZE == 500
MaxAttempts == 3
Overlap == 10
FallbackWindow == 12000
SafetyMargin == 5

NoError == "null"
ErrMsg == "Failed to load curve trades"

Max(x, y) == IF x >= y THEN x ELSE y
Min(x, y) == IF x <= y THEN x ELSE y

--------------------------------------------------------------------------
(* Pure functions                                                         *)

\* provider.getCode(address, bn) !== "0x"
HasCode(k, bn) == bn >= DeployedAt[k]

RECURSIVE BinSearch(_, _, _, _)
BinSearch(k, lo, hi, found) ==
  IF lo > hi THEN found
  ELSE LET mid == (lo + hi) \div 2 IN
       IF HasCode(k, mid) THEN BinSearch(k, lo, mid - 1, mid)
                          ELSE BinSearch(k, mid + 1, hi, found)

\* a fallback that scans from the first block of the chain
FallbackFromGenesis(latest) == 0

\* return Math.max(0, latest - 12_000): no code at latest
FallbackResult(latest) == Max(0, latest - FallbackWindow)

\* a result without the safety margin
DeployResultNoMargin(found) == found

\* return Math.max(0, found - 5)
DeployResult(found) == Max(0, found - SafetyMargin)

findContractDeployBlock(k, latest) ==
  IF ~HasCode(k, latest) THEN FallbackResult(latest)
  ELSE DeployResult(BinSearch(k, 0, latest, latest))

\* provider.getLogs({address, topics: [topic], fromBlock, toBlock})
GetLogs(k, topic, from, to) ==
  SelectSeq(ChainLogSeq, LAMBDA l : /\ l.address = k
                                    /\ l.topic = topic
                                    /\ l.blockNumber >= from
                                    /\ l.blockNumber <= to)

\* block.timestamp
BlockTime(bn) == 3 * bn

\* a parse that gives up on the whole batch at the first bad log
ParseLogsAllOrNothing(k, logs) ==
  IF \E i \in 1..Len(logs) : ~logs[i].ok THEN <<>>
  ELSE [i \in 1..Len(logs) |->
          [type |-> logs[i].topic, to |-> k, timestamp |-> 0,
           txHash |-> logs[i].transactionHash,
           blockNumber |-> logs[i].blockNumber,
           logIndex |-> logs[i].index]]

\* the map callbacks of parsedBuys / parsedSells followed by filter(Boolean)
RECURSIVE ParseLogs(_, _)
ParseLogs(k, logs) ==
  IF logs = <<>> THEN <<>>
  ELSE LET l == Head(logs) IN
       (IF l.ok
        THEN << [type |-> l.topic, to |-> k, timestamp |-> 0,
                 txHash |-> l.transactionHash,
                 blockNumber |-> l.blockNumber,
                 logIndex |-> l.index] >>
        ELSE <<>>) \o ParseLogs(k, Tail(logs))

\* a comparator that forgets the logIndex tie-break
TradeCmpBlockOnly(a, b) == a.blockNumber - b.blockNumber

\* the comparator of both sorts: blockNumber, then logIndex
TradeCmp(a, b) ==
  IF a.blockNumber # b.blockNumber THEN a.blockNumber - b.blockNumber
  ELSE a.logIndex - b.logIndex

RECURSIVE InsertSorted(_, _)
InsertSorted(s, t) ==
  IF s = <<>> THEN <<t>>
  ELSE IF TradeCmp(Head(s), t) <= 0 THEN <<Head(s)>> \o InsertSorted(Tail(s), t)
  ELSE <<t>> \o s

\* Array.prototype.sort with TradeCmp (stable)
RECURSIVE SortTrades(_)
SortTrades(s) ==
  IF s = <<>> THEN <<>>
  ELSE InsertSorted(SortTrades(SubSeq(s, 1, Len(s) - 1)), s[Len(s)])

keyOf(t) == <<t.txHash, t.logIndex>>

\* a Map.set under which an existing key keeps the record it has
MapSetKeepFirst(m, t) ==
  IF \E i \in 1..Len(m) : keyOf(m[i]) = keyOf(t) THEN m ELSE Append(m, t)

\* a merge that pushes every record without looking up its key
MapSetAppend(m, t) == Append(m, t)

\* Map.set: an existing key keeps its position and takes the new value
MapSet(m, t) ==
  IF \E i \in 1..Len(m) : keyOf(m[i]) = keyOf(t)
  THEN [i \in 1..Len(m) |-> IF keyOf(m[i]) = keyOf(t) THEN t ELSE m[i]]
  ELSE Append(m, t)

RECURSIVE MapSetAll(_, _)
MapSetAll(m, s) ==
  IF s = <<>> THEN m ELSE MapSetAll(MapSet(m, Head(s)), Tail(s))

\* a merge that publishes the incoming trades alone
mergeTradesIncomingOnly(prev, next) == SortTrades(MapSetAll(<<>>, next))

\* a merge that never adds a key: only the keys of prev survive
mergeTradesKnownKeys(prev, next) ==
  SortTrades(SelectSeq(MapSetAll(MapSetAll(<<>>, prev), next),
                       LAMBDA t : \E i \in 1..Len(prev) : keyOf(prev[i]) = keyOf(t)))

mergeTrades(prev, next) ==
  SortTrades(MapSetAll(MapSetAll(<<>>, prev), next))

\* Array.from(new Set(combined.map(t => t.blockNumber)))
RECURSIVE UniqueBlocks(_, _)
UniqueBlocks(s, acc) ==
  IF s = <<>> THEN acc
  ELSE LET bn == Head(s).blockNumber IN
       UniqueBlocks(Tail(s),
                    IF \E i \in 1..Len(acc) : acc[i] = bn THEN acc
                    ELSE Append(acc, bn))

\* a map step that drops the trades whose block has no timestamp
WithTimestampsResolvedOnly(s, ts) ==
  LET r == SelectSeq(s, LAMBDA t : t.blockNumber \in DOMAIN ts)
  IN [i \in 1..Len(r) |-> [r[i] EXCEPT !.timestamp = ts[r[i].blockNumber]]]

\* combined.map(t => ({...t, timestamp: blockTs.get(t.blockNumber) ?? 0}))
WithTimestamps(s, ts) ==
  [i \in 1..Len(s) |->
     [s[i] EXCEPT !.timestamp =
        IF s[i].blockNumber \in DOMAIN ts THEN ts[s[i].blockNumber] ELSE 0]]

--------------------------------------------------------------------------
(* State                                                                  *)

VARIABLES
  head,          \* chain head (provider.getBlockNumber())
  mounted,       \* the hook instance is mounted
  key,           \* campaignAddress (with chainId) of the last render
  blockListeners,  \* the keys whose onBlock is registered with the provider
  intervalTimers,  \* the keys whose fallback interval is running
  points, loading, error,              \* React state
  inFlightRef, deployBlockRef, cursorRef,
  lsDeploy, lsCursor,                  \* localStorage, per entity key
  pc,            \* where the cycle is suspended: idle/latest/deploy/logs/ts
  cycKey,        \* campaignAddress captured by the running fetchTrades closure
  latest, fromBlock,                   \* locals of the running cycle
  fetch,         \* per topic: the getLogsChunked call in progress
  combined, tsTodo, blockTs,           \* locals of the timestamp loop
  stable,        \* the rendered key has not changed since the cycle started
  active,        \* fetchTrades calls past the in-flight guard, not yet ended
  owner,         \* the key whose cycle set deployBlockRef / cursorRef
  last,          \* how the last cycle ended (history of the previous cycle)
  mergeCall,     \* mergeTrades called on its own: arguments and results
  chunkCall,     \* getLogsChunked called on its own: its locals and requests
  resolveCall,   \* findContractDeployBlock called on its own: its locals
  candleCall,    \* the candle functions called on their own: arguments and results
  tvChart,       \* a TradingViewChart instance: props, state and refs
  dexHook,       \* a useDexPairTrades instance: state, effects and listeners
  cacheCall      \* the cache reads of fetchTrades on their own: entries and refs

hookVars == << head, mounted, key, blockListeners, intervalTimers, points, loading, error, inFlightRef,
           deployBlockRef, cursorRef, lsDeploy, lsCursor, pc, cycKey, latest,
           fromBlock, fetch, combined, tsTodo, blockTs, stable, active, owner,
           last >>

\* the module-level functions called on their own, outside the hook
callVars == << mergeCall, chunkCall, resolveCall, candleCall, tvChart, dexHook,
              cacheCall >>

vars == << hookVars, callVars >>

chainVars == << head >>
triggerVars == << blockListeners, intervalTimers >>
reactVars == << points, loading, error >>
refVars == << inFlightRef, deployBlockRef, cursorRef >>
lsVars == << lsDeploy, lsCursor >>
localVars == << latest, fromBlock, fetch, combined, tsTodo, blockTs >>

IdleFetcher == [start |-> 0, attempt |-> 0, logs |-> <<>>, done |-> TRUE]
IdleFetch == [t \in Topics |-> IdleFetcher]
EmptyTs == [b \in {} |-> 0]
NoLast == [res |-> "none", from |-> Null, partial |-> FALSE, collide |-> FALSE]
NoOwner == [deploy |-> NoKey, cursor |-> NoKey]
NoCall == [pc |-> "off"]

\* the hook before its first render
HookInit ==
  /\ head = ChainHeads[1]
  /\ mounted = FALSE
  /\ key = NoKey
  /\ blockListeners = {}
  /\ intervalTimers = {}
  /\ points = <<>>
  /\ loading = TRUE
  /\ error = NoError
  /\ inFlightRef = FALSE
  /\ deployBlockRef = Null
  /\ cursorRef = Null
  /\ lsDeploy = [k \in Keys |-> Null]
  /\ lsCursor = [k \in Keys |-> Null]
  /\ pc = "idle"
  /\ cycKey = NoKey
  /\ latest = 0
  /\ fromBlock = 0
  /\ fetch = IdleFetch
  /\ combined = <<>>
  /\ tsTodo = <<>>
  /\ blockTs = EmptyTs
  /\ stable = TRUE
  /\ active = 0
  /\ owner = NoOwner
  /\ last = NoLast

Init ==
  /\ HookInit
  /\ cacheCall = NoCall
  /\ tvChart = NoCall
  /\ dexHook = NoCall
  /\ candleCall = NoCall
  /\ mergeCall = NoCall
  /\ chunkCall = NoCall
  /\ resolveCall = NoCall

--------------------------------------------------------------------------
(* fetchTrades, piece by piece                                            *)

\* a React state setter: dropped once the instance is unmounted
SetState(old, new) == IF mounted THEN new ELSE old

\* a storage key built from the address of the latest render
lsKeyOfRender == key

\* lsKeyDeploy(cid, campaignAddress) / lsKeyCursor(cid, campaignAddress):
\* built from the chainId and campaignAddress the fetchTrades closure holds
lsKey == cycKey

\* localStorage.setItem inside try/catch: the write may throw and be ignored
StoreWrite(store, k, v, wrote) == IF wrote THEN [store EXCEPT ![k] = v] ELSE store

\* a fetchTrades without the single-flight guard
InFlightGuardOff == FALSE

\* if (inFlightRef.current) return;
InFlightGuard == inFlightRef

\* cached != null && cached >= 0 && cached <= latest
DeployCacheValid(cached, lat) == cached # Null /\ cached >= 0 /\ cached <= lat

\* cachedCursor != null && cachedCursor > 0 && cachedCursor <= latest
CursorCacheValid(cached, lat) == cached # Null /\ cached > 0 /\ cached <= lat

\* cursorRef.current after the cursor block
LoadCursor(k, lat) ==
  IF cursorRef = Null
  THEN (IF CursorCacheValid(lsCursor[k], lat) THEN lsCursor[k] ELSE Null)
  ELSE cursorRef

\* fromBlock, from startBlock and cursorRef.current
ScanFrom(startBlock, cursor) ==
  IF cursor = Null THEN startBlock ELSE Max(startBlock, cursor - Overlap)

\* a sub-range that runs one block into the next one
ChunkEndInclusive(start, toBlock) == Min(toBlock, start + LOG_CHUNK_SIZE)

\* end of one sub-range of getLogsChunked
ChunkEnd(start, toBlock) == Min(toBlock, start + LOG_CHUNK_SIZE - 1)

\* a catch block that blanks the display
PointsClearedOnError == <<>>

\* points after the catch block ("Keep previous points")
PointsAfterError == points

\* a catch/finally block that moves the cursor to the block it tried to reach
CursorAdvancedOnError == latest

\* cursorRef.current after the catch block (it does not touch the cursor)
CursorAfterError == cursorRef

\* a cursor set to the chain head at the end of the cycle
CursorAtHead == head

\* a cursor set to the start of the scanned range
CursorAtFrom == fromBlock

\* cursorRef.current after a successful cycle
CursorAfterSuccess == latest

\* blockTs.set(bn, Number(b.timestamp))
TsSet(ts, bn) ==
  [b \in DOMAIN ts \cup {bn} |-> IF b = bn THEN BlockTime(bn) ELSE ts[b]]

\* the RPC requests the running cycle is waiting for
Outstanding ==
  CASE pc = "latest" -> {[m |-> "getBlockNumber", t |-> cycKey, x |-> 0, y |-> 0]}
    [] pc = "deploy" -> {[m |-> "getCode", t |-> cycKey, x |-> latest, y |-> 0]}
    [] pc = "logs" -> {[m |-> "getLogs", t |-> t, x |-> fetch[t].start, y |-> fetch[t].attempt] :
                         t \in {u \in Topics : ~fetch[u].done}}
    [] pc = "ts" -> {[m |-> "getBlock", t |-> cycKey, x |-> Head(tsTodo), y |-> 0]}
    [] OTHER -> {}

\* the locals of a cycle that has ended
LocalsCleared ==
  /\ cycKey' = NoKey
  /\ latest' = 0
  /\ fromBlock' = 0
  /\ fetch' = IdleFetch
  /\ combined' = <<>>
  /\ tsTodo' = <<>>
  /\ blockTs' = EmptyTs
  /\ stable' = TRUE

\* a flag lowered at the end of the try block only
FlagLoweredOnSuccessOnly(failed) == failed

\* finally { inFlightRef.current = false }, after the try block's tail
\* and after the catch block alike
FlagAfterFinally(failed) == FALSE

\* catch (e) { setError(msg); setLoading(false) } finally { inFlightRef.current = false }
Catch ==
  /\ points' = PointsAfterError
  /\ error' = SetState(error, ErrMsg)
  /\ loading' = SetState(loading, FALSE)
  /\ inFlightRef' = FlagAfterFinally(TRUE)
  /\ pc' = "idle"
  /\ last' = [res |-> "failed",
              from |-> IF pc = "logs" /\ stable /\ mounted /\ cycKey = key
                       THEN fromBlock ELSE Null,
              partial |-> \E t \in Topics : fetch[t].logs # <<>>,
              collide |-> FALSE]
  /\ active' = active - 1
  /\ LocalsCleared
  /\ cursorRef' = CursorAfterError
  /\ UNCHANGED << chainVars, callVars, mounted, key, triggerVars, deployBlockRef, lsVars, owner >>

\* the tail of the try block: merge, publish, advance the cursor
Commit(comb, ts) ==
  /\ points' = SetState(points, mergeTrades(points, WithTimestamps(comb, ts)))
  /\ loading' = SetState(loading, FALSE)
  /\ error' = SetState(error, NoError)
  /\ cursorRef' = CursorAfterSuccess
  /\ \E wrote \in BOOLEAN : lsCursor' = StoreWrite(lsCursor, lsKey, latest, wrote)
  /\ inFlightRef' = FlagAfterFinally(FALSE)
  /\ pc' = "idle"
  /\ last' = [res |-> "ok", from |-> Null, partial |-> FALSE,
              collide |-> \E i \in 1..Len(points), j \in 1..Len(comb) :
                            keyOf(points[i]) = keyOf(comb[j])]
  /\ active' = active - 1
  /\ owner' = [owner EXCEPT !.cursor = cycKey]
  /\ LocalsCleared
  /\ UNCHANGED << chainVars, callVars, mounted, key, triggerVars, deployBlockRef, lsDeploy >>

\* from the cursor block to the two getLogsChunked calls, with the deploy
\* block d just resolved; the scan range is never empty here (d <= lat and
\* cursor <= lat), so both calls issue their first request
StartScan(lat, d) ==
  LET c == LoadCursor(cycKey, lat)
      from == ScanFrom(d, c)
  IN /\ deployBlockRef' = d
     /\ cursorRef' = c
     /\ latest' = lat
     /\ fromBlock' = from
     /\ fetch' = [t \in Topics |->
                    [start |-> from, attempt |-> 0, logs |-> <<>>, done |-> FALSE]]
     /\ pc' = "logs"
     /\ owner' = [deploy |-> IF deployBlockRef = Null THEN cycKey ELSE owner.deploy,
                  cursor |-> IF cursorRef = Null /\ c # Null THEN cycKey
                             ELSE owner.cursor]
     /\ last' = IF last.from # Null THEN [last EXCEPT !.res = "rescan"] ELSE NoLast
     /\ UNCHANGED << chainVars, callVars, mounted, key, triggerVars, reactVars, inFlightRef, lsCursor,
                     cycKey, combined, tsTodo, blockTs, stable, active >>

\* both getLogsChunked calls returned: parse, sort, then the timestamp loop
Finish(buyLogs, sellLogs) ==
  LET comb == SortTrades(ParseLogs(cycKey, buyLogs) \o ParseLogs(cycKey, sellLogs))
      ub == UniqueBlocks(comb, <<>>)
  IN IF ub = <<>>
     THEN Commit(comb, EmptyTs)
     ELSE /\ pc' = "ts"
          /\ combined' = comb
          /\ tsTodo' = ub
          /\ blockTs' = EmptyTs
          /\ fetch' = IdleFetch
          /\ UNCHANGED << chainVars, callVars, mounted, key, triggerVars, reactVars, refVars, lsVars,
                          cycKey, latest, fromBlock, stable, active, owner, last >>

\* fetchTrades() up to its first await, called with the state setters'
\* pending values (p, l, e) of the same render pass
Begin(k, p, l, e) ==
  IF k = NoKey
  THEN /\ points' = <<>>
       /\ loading' = FALSE
       /\ error' = NoError
       /\ UNCHANGED << inFlightRef, pc, cycKey, active >>
  ELSE IF InFlightGuard
  THEN /\ points' = p
       /\ loading' = l
       /\ error' = e
       /\ UNCHANGED << inFlightRef, pc, cycKey, active >>
  ELSE /\ points' = p
       /\ loading' = TRUE
       /\ error' = NoError
       /\ inFlightRef' = TRUE
       /\ pc' = "latest"
       /\ cycKey' = k
       /\ active' = active + 1

--------------------------------------------------------------------------
(* Actions                                                                *)

\* a cleanup that leaves the listener and the interval in place
CleanupSkipped(registered, k) == registered

\* the cleanup of the trigger effect: clearInterval(t), readProvider.off("block", onBlock)
AfterCleanup(registered, k) == registered \ {k}

\* readProvider.on("block", onBlock) / setInterval(fetchTrades, 10_000),
\* skipped without a campaignAddress
Registered(registered, k) == IF k = NoKey THEN registered ELSE registered \cup {k}

\* the pages only link to campaigns that exist on the chain
Listed(k) == IF k = NoKey THEN TRUE ELSE HasCode(k, head)

\* first render of a new instance: fresh state and refs, then both effects
Mount(k) ==
  /\ ~mounted
  /\ pc = "idle"
  /\ Listed(k)
  /\ mounted' = TRUE
  /\ key' = k
  /\ blockListeners' = Registered(blockListeners, k)
  /\ intervalTimers' = Registered(intervalTimers, k)
  /\ deployBlockRef' = Null
  /\ cursorRef' = Null
  /\ stable' = TRUE
  /\ IF k = NoKey
     THEN /\ points' = <<>> /\ loading' = FALSE /\ error' = NoError
          /\ inFlightRef' = FALSE /\ pc' = pc /\ cycKey' = cycKey
          /\ active' = 0
     ELSE /\ points' = <<>> /\ loading' = TRUE /\ error' = NoError
          /\ inFlightRef' = TRUE /\ pc' = "latest" /\ cycKey' = k
          /\ active' = 1
  /\ owner' = NoOwner
  /\ last' = NoLast
  /\ UNCHANGED << chainVars, callVars, lsVars, latest, fromBlock, fetch, combined, tsTodo, blockTs >>

\* campaignAddress or chainId changes: the reset effect, then the trigger
\* effect (cleanup of the old listener and interval, then fetchTrades())
KeyChange(k) ==
  /\ mounted
  /\ k # key
  /\ Listed(k)
  /\ key' = k
  /\ blockListeners' = Registered(AfterCleanup(blockListeners, key), k)
  /\ intervalTimers' = Registered(AfterCleanup(intervalTimers, key), k)
  /\ deployBlockRef' = Null
  /\ cursorRef' = Null
  /\ Begin(k, <<>>, TRUE, NoError)
  /\ stable' = (pc = "idle")
  /\ owner' = NoOwner
  /\ last' = NoLast
  /\ UNCHANGED << chainVars, callVars, mounted, lsVars, latest, fromBlock, fetch,
                  combined, tsTodo, blockTs >>

\* the cleanup of the trigger effect on unmount
Unmount ==
  /\ mounted
  /\ mounted' = FALSE
  /\ blockListeners' = AfterCleanup(blockListeners, key)
  /\ intervalTimers' = AfterCleanup(intervalTimers, key)
  /\ UNCHANGED << chainVars, callVars, key, reactVars, refVars, lsVars, pc, cycKey,
                  localVars, stable, active, owner, last >>

\* readProvider.on("block", onBlock)
OnBlock ==
  /\ \E k \in blockListeners : Begin(k, points, loading, error)
  /\ UNCHANGED << chainVars, callVars, mounted, key, triggerVars, deployBlockRef, cursorRef, lsVars,
                  localVars, stable, owner, last >>

\* setInterval(fetchTrades, 10_000)
IntervalTick ==
  /\ \E k \in intervalTimers : Begin(k, points, loading, error)
  /\ UNCHANGED << chainVars, callVars, mounted, key, triggerVars, deployBlockRef, cursorRef, lsVars,
                  localVars, stable, owner, last >>

\* await readProvider.getBlockNumber(), then on to the next await
GetBlockNumberReply(ok) ==
  /\ pc = "latest"
  /\ IF ~ok THEN Catch
     ELSE IF deployBlockRef = Null /\ ~DeployCacheValid(lsDeploy[cycKey], head)
     THEN /\ pc' = "deploy"
          /\ latest' = head
          /\ UNCHANGED << chainVars, callVars, mounted, key, triggerVars, reactVars, refVars, lsVars,
                          cycKey, fromBlock, fetch, combined, tsTodo, blockTs,
                          stable, active, owner, last >>
     ELSE /\ StartScan(head, IF deployBlockRef = Null THEN lsDeploy[cycKey]
                                                      ELSE deployBlockRef)
          /\ UNCHANGED lsDeploy

\* await findContractDeployBlock(...), then on to the next await
DeployReply(ok) ==
  /\ pc = "deploy"
  /\ IF ~ok THEN Catch
     ELSE LET found == findContractDeployBlock(cycKey, latest) IN
          /\ \E wrote \in BOOLEAN : lsDeploy' = StoreWrite(lsDeploy, lsKey, found, wrote)
          /\ StartScan(latest, found)

\* one provider.getLogs of the getLogsChunked call for topic t settles
LogsReply(t, ok) ==
  /\ pc = "logs"
  /\ ~fetch[t].done
  /\ LET f == fetch[t]
         end == ChunkEnd(f.start, latest)
         logs2 == f.logs \o GetLogs(cycKey, t, f.start, end)
         next == f.start + LOG_CHUNK_SIZE
         other == CHOOSE u \in Topics : u # t
     IN IF ok
        THEN IF next <= latest
             THEN /\ fetch' = [fetch EXCEPT ![t] =
                                 [start |-> next, attempt |-> 0, logs |-> logs2, done |-> FALSE]]
                  /\ UNCHANGED << chainVars, callVars, mounted, key, triggerVars, reactVars, refVars, lsVars,
                                  pc, cycKey, latest, fromBlock, combined, tsTodo,
                                  blockTs, stable, active, owner, last >>
             ELSE IF fetch[other].done
             THEN IF t = "buy" THEN Finish(logs2, fetch[other].logs)
                               ELSE Finish(fetch[other].logs, logs2)
             ELSE /\ fetch' = [fetch EXCEPT ![t] =
                                 [start |-> f.start, attempt |-> 0, logs |-> logs2, done |-> TRUE]]
                  /\ UNCHANGED << chainVars, callVars, mounted, key, triggerVars, reactVars, refVars, lsVars,
                                  pc, cycKey, latest, fromBlock, combined, tsTodo,
                                  blockTs, stable, active, owner, last >>
        ELSE IF f.attempt + 1 < MaxAttempts
             THEN /\ fetch' = [fetch EXCEPT ![t].attempt = f.attempt + 1]
                  /\ UNCHANGED << chainVars, callVars, mounted, key, triggerVars, reactVars, refVars, lsVars,
                                  pc, cycKey, latest, fromBlock, combined, tsTodo,
                                  blockTs, stable, active, owner, last >>
             ELSE Catch

\* one await readProvider.getBlock(bn) of the timestamp loop settles
BlockReply(ok) ==
  /\ pc = "ts"
  /\ LET bn == Head(tsTodo)
         ts2 == IF ok THEN TsSet(blockTs, bn) ELSE blockTs
     IN IF Tail(tsTodo) = <<>>
        THEN Commit(combined, ts2)
        ELSE /\ tsTodo' = Tail(tsTodo)
             /\ blockTs' = ts2
             /\ UNCHANGED << chainVars, callVars, mounted, key, triggerVars, reactVars, refVars, lsVars,
                             pc, cycKey, latest, fromBlock, fetch, combined,
                             stable, active, owner, last >>

\* the chain grows
AdvanceHead ==
  /\ \E i \in 1..(MaxHeadIdx - 1) :
       /\ head = ChainHeads[i]
       /\ head' = ChainHeads[i + 1]
  /\ UNCHANGED << callVars, mounted, key, triggerVars, reactVars, refVars, lsVars, pc, cycKey,
                  localVars, stable, active, owner, last >>

Next ==
  \/ \E k \in Keys \cup {NoKey} : Mount(k)
  \/ \E k \in Keys \cup {NoKey} : KeyChange(k)
  \/ Unmount
  \/ OnBlock
  \/ IntervalTick
  \/ \E ok \in BOOLEAN : GetBlockNumberReply(ok)
  \/ \E ok \in BOOLEAN : DeployReply(ok)
  \/ \E t \in Topics, ok \in BOOLEAN : LogsReply(t, ok)
  \/ \E ok \in BOOLEAN : BlockReply(ok)
  \/ AdvanceHead

Spec == Init /\ [][Next]_vars

\* the timers and the provider's block events keep firing and every
\* awaited RPC call settles: the hook does not stop while a step is possible
LiveSpec == Init /\ [][Next]_vars /\ WF_vars(Next)

--------------------------------------------------------------------------
(* mergeTrades called on its own                                          *)

\* longest argument array of the mergeTrades calls
MaxMergeLen == 2

\* the trades the argument arrays are built from: one trade seen before and
\* after its timestamp was resolved, a second log of the same transaction,
\* an older trade, and a record that ties with the first on
\* (blockNumber, logIndex) under another key
MergeTrades ==
  { [type |-> "buy",  to |-> "a", timestamp |-> 0,    txHash |-> "t1", blockNumber |-> 1002, logIndex |-> 0],
    [type |-> "buy",  to |-> "a", timestamp |-> 3006, txHash |-> "t1", blockNumber |-> 1002, logIndex |-> 0],
    [type |-> "sell", to |-> "a", timestamp |-> 3006, txHash |-> "t1", blockNumber |-> 1002, logIndex |-> 1],
    [type |-> "buy",  to |-> "a", timestamp |-> 2994, txHash |-> "t2", blockNumber |-> 998,  logIndex |-> 0],
    [type |-> "sell", to |-> "a", timestamp |-> 0,    txHash |-> "t3", blockNumber |-> 1002, logIndex |-> 0] }

MergeArgs == UNION {[1..n -> MergeTrades] : n \in 0..MaxMergeLen}

\* an argument array sorted in place by the call
ArgSortedInPlace(arr) == SortTrades(arr)

\* an argument array after the call: the loops only read prev and next, and
\* the sort runs on the fresh array made by Array.from
ArgAfterMerge(arr) == arr

MergeInit ==
  /\ HookInit
  /\ cacheCall = NoCall
  /\ tvChart = NoCall
  /\ dexHook = NoCall
  /\ candleCall = NoCall
  /\ chunkCall = NoCall
  /\ resolveCall = NoCall
  /\ \E A \in MergeArgs, B \in MergeArgs :
       mergeCall = [pc |-> "args", A |-> A, B |-> B,
                    AB |-> <<>>, ABB |-> <<>>, BA |-> <<>>]

\* AB = mergeTrades(A, B)
CallMerge ==
  /\ mergeCall.pc = "args"
  /\ mergeCall' = [mergeCall EXCEPT !.pc = "ab",
                                     !.AB = mergeTrades(mergeCall.A, mergeCall.B),
                                     !.A = ArgAfterMerge(mergeCall.A),
                                     !.B = ArgAfterMerge(mergeCall.B)]
  /\ UNCHANGED << hookVars, cacheCall, tvChart, dexHook, candleCall, chunkCall, resolveCall >>

\* ABB = mergeTrades(AB, B)
CallMergeAgain ==
  /\ mergeCall.pc = "ab"
  /\ mergeCall' = [mergeCall EXCEPT !.pc = "abb",
                                     !.ABB = mergeTrades(mergeCall.AB, mergeCall.B),
                                     !.AB = ArgAfterMerge(mergeCall.AB),
                                     !.B = ArgAfterMerge(mergeCall.B)]
  /\ UNCHANGED << hookVars, cacheCall, tvChart, dexHook, candleCall, chunkCall, resolveCall >>

\* BA = mergeTrades(B, A)
CallMergeSwapped ==
  /\ mergeCall.pc = "abb"
  /\ mergeCall' = [mergeCall EXCEPT !.pc = "done",
                                     !.BA = mergeTrades(mergeCall.B, mergeCall.A),
                                     !.A = ArgAfterMerge(mergeCall.A),
                                     !.B = ArgAfterMerge(mergeCall.B)]
  /\ UNCHANGED << hookVars, cacheCall, tvChart, dexHook, candleCall, chunkCall, resolveCall >>

MergeNext == CallMerge \/ CallMergeAgain \/ CallMergeSwapped

MergeSpec == MergeInit /\ [][MergeNext]_vars

--------------------------------------------------------------------------
(* getLogsChunked called on its own                                       *)

\* the widest range of the calls, in sub-ranges
MaxChunks == 4

\* the fromBlock and toBlock values of the calls
ChunkFroms == {0, 700, 1500}
ChunkTos == {0, 499, 500, 699, 999, 1199, 1999, 2000, 2499}

\* the errors provider.getLogs can reject with
ChunkErrors == {"rate limited", "timeout"}
NoErr == "null"

\* an exhausted sub-range that is passed over
RethrowsNever(lastErr) == FALSE

\* if (lastErr) throw lastErr;
Rethrows(lastErr) == lastErr # NoErr

\* the request of the sub-range that starts at start
ChunkRequest(start, toBlock) == [fromBlock |-> start, toBlock |-> ChunkEnd(start, toBlock)]

ChunkInit ==
  /\ HookInit
  /\ cacheCall = NoCall
  /\ tvChart = NoCall
  /\ dexHook = NoCall
  /\ candleCall = NoCall
  /\ mergeCall = NoCall
  /\ resolveCall = NoCall
  /\ \E f \in ChunkFroms, t \in ChunkTos, tp \in Topics :
       /\ t < f + MaxChunks * LOG_CHUNK_SIZE
       /\ chunkCall = [pc |-> "call", fromBlock |-> f, toBlock |-> t, topic |-> tp,
                       start |-> f, attempt |-> 0, lastErr |-> NoErr, wait |-> 0,
                       logs |-> <<>>, reqs |-> <<>>, result |-> <<>>, thrown |-> NoErr]

\* the for loop over sub-ranges, entered at start: the next getLogs is sent,
\* or the loop is over and logs is returned
ChunkLoop(c, start) ==
  IF start <= c.toBlock
  THEN [c EXCEPT !.pc = "getLogs", !.start = start, !.attempt = 0, !.lastErr = NoErr,
                 !.reqs = Append(c.reqs, ChunkRequest(start, c.toBlock))]
  ELSE [c EXCEPT !.pc = "returned", !.start = start, !.result = c.logs]

\* the call, up to its first await
ChunkEnter ==
  /\ chunkCall.pc = "call"
  /\ chunkCall' = ChunkLoop(chunkCall, chunkCall.fromBlock)
  /\ UNCHANGED << hookVars, cacheCall, tvChart, dexHook, candleCall, mergeCall, resolveCall >>

\* provider.getLogs resolves: push the chunk, leave the retry loop
ChunkLogsOk ==
  /\ chunkCall.pc = "getLogs"
  /\ LET chunk == GetLogs("a", chunkCall.topic, chunkCall.start,
                          ChunkEnd(chunkCall.start, chunkCall.toBlock))
         c == [chunkCall EXCEPT !.logs = chunkCall.logs \o chunk, !.lastErr = NoErr]
     IN chunkCall' = ChunkLoop(c, c.start + LOG_CHUNK_SIZE)
  /\ UNCHANGED << hookVars, cacheCall, tvChart, dexHook, candleCall, mergeCall, resolveCall >>

\* provider.getLogs rejects with e: remember it and back off
ChunkLogsFail(e) ==
  /\ chunkCall.pc = "getLogs"
  /\ chunkCall' = [chunkCall EXCEPT !.pc = "backoff", !.lastErr = e,
                                     !.wait = 250 * (chunkCall.attempt + 1)]
  /\ UNCHANGED << hookVars, cacheCall, tvChart, dexHook, candleCall, mergeCall, resolveCall >>

\* the backoff timer fires: the next attempt, or the end of the retry loop
ChunkBackoffDone ==
  /\ chunkCall.pc = "backoff"
  /\ LET c == [chunkCall EXCEPT !.attempt = chunkCall.attempt + 1, !.wait = 0]
     IN chunkCall' =
          IF c.attempt < MaxAttempts
          THEN [c EXCEPT !.pc = "getLogs",
                         !.reqs = Append(c.reqs, ChunkRequest(c.start, c.toBlock))]
          ELSE IF Rethrows(c.lastErr)
          THEN [c EXCEPT !.pc = "thrown", !.thrown = c.lastErr]
          ELSE ChunkLoop(c, c.start + LOG_CHUNK_SIZE)
  /\ UNCHANGED << hookVars, cacheCall, tvChart, dexHook, candleCall, mergeCall, resolveCall >>

ChunkNext ==
  \/ ChunkEnter
  \/ ChunkLogsOk
  \/ \E e \in ChunkErrors : ChunkLogsFail(e)
  \/ ChunkBackoffDone

ChunkSpec == ChunkInit /\ [][ChunkNext]_vars

--------------------------------------------------------------------------
(* findContractDeployBlock called on its own                              *)

\* how far past each base block the latest blocks of the calls reach
ResolveSpan == 3

\* the latest blocks of the calls
ResolveLatests == {b + i : b \in {0, 1000, 12000}, i \in 0..ResolveSpan}

\* the first block with code: the predicate of getCode is false below it
\* and true from it on; above every latest block: no code yet
ResolveDeploys == {0, 1, 4, 5, 6, 996, 1000, 1001, 1010, 12002, 50000}

\* provider.getCode(address, bn) is neither empty nor "0x": the call's
\* chain has code from block D on, except at the blocks in holes
CodeAt(c, bn) == bn >= c.D /\ bn \notin c.holes

\* the search keeps the found block in its interval
UpperKeepsMid(mid) == mid

\* hi = mid - 1
UpperAfterHit(mid) == mid - 1

ResolveInit ==
  /\ HookInit
  /\ cacheCall = NoCall
  /\ tvChart = NoCall
  /\ dexHook = NoCall
  /\ candleCall = NoCall
  /\ mergeCall = NoCall
  /\ chunkCall = NoCall
  /\ \E D \in ResolveDeploys, l \in ResolveLatests :
       resolveCall = [pc |-> "call", D |-> D, holes |-> {}, latest |-> l,
                      lo |-> 0, hi |-> l,
                      found |-> l, queries |-> <<>>, ret |-> Null]

\* the while loop, entered with lo, hi and found: the next getCode is sent,
\* or the loop is over and the result is returned
ResolveLoop(c) ==
  IF c.lo <= c.hi
  THEN [c EXCEPT !.pc = "search",
                 !.queries = Append(c.queries, (c.lo + c.hi) \div 2)]
  ELSE [c EXCEPT !.pc = "returned", !.ret = DeployResult(c.found)]

\* the call, up to its first await: getCode(address, latest)
ResolveEnter ==
  /\ resolveCall.pc = "call"
  /\ resolveCall' = [resolveCall EXCEPT !.pc = "codeLatest",
                                         !.queries = <<resolveCall.latest>>]
  /\ UNCHANGED << hookVars, cacheCall, tvChart, dexHook, candleCall, mergeCall, chunkCall >>

\* getCode(address, latest) resolves: the fast path, or into the search
ResolveCodeLatest ==
  /\ resolveCall.pc = "codeLatest"
  /\ resolveCall' =
       IF ~CodeAt(resolveCall, resolveCall.latest)
       THEN [resolveCall EXCEPT !.pc = "returned",
                                !.ret = FallbackResult(resolveCall.latest)]
       ELSE ResolveLoop(resolveCall)
  /\ UNCHANGED << hookVars, cacheCall, tvChart, dexHook, candleCall, mergeCall, chunkCall >>

\* getCode(address, mid) resolves: one round of the binary search
ResolveCodeMid ==
  /\ resolveCall.pc = "search"
  /\ LET mid == (resolveCall.lo + resolveCall.hi) \div 2
         c == IF CodeAt(resolveCall, mid)
              THEN [resolveCall EXCEPT !.found = mid, !.hi = UpperAfterHit(mid)]
              ELSE [resolveCall EXCEPT !.lo = mid + 1]
     IN resolveCall' = ResolveLoop(c)
  /\ UNCHANGED << hookVars, cacheCall, tvChart, dexHook, candleCall, mergeCall, chunkCall >>

\* a getCode rejects: the function has no catch, the call rejects
ResolveCodeFails ==
  /\ resolveCall.pc \in {"codeLatest", "search"}
  /\ resolveCall' = [resolveCall EXCEPT !.pc = "thrown"]
  /\ UNCHANGED << hookVars, cacheCall, tvChart, dexHook, candleCall, mergeCall, chunkCall >>

ResolveNext ==
  \/ ResolveEnter
  \/ ResolveCodeLatest
  \/ ResolveCodeMid
  \/ ResolveCodeFails

ResolveSpec == ResolveInit /\ [][ResolveNext]_vars

\* the highest latest block of the calls on chains of any shape
MaxSearchLatest == 6

\* findContractDeployBlock called with any latest block up to the bound
\* and any answers of getCode on the blocks 0..latest, code that comes and
\* goes included (a reorganised chain, a provider without archive state)
SearchInit ==
  /\ HookInit
  /\ cacheCall = NoCall
  /\ tvChart = NoCall
  /\ dexHook = NoCall
  /\ candleCall = NoCall
  /\ mergeCall = NoCall
  /\ chunkCall = NoCall
  /\ \E l \in 0..MaxSearchLatest :
       \E D \in 0..(l + 1) :
         \E holes \in SUBSET ((D + 1)..l) :
           resolveCall = [pc |-> "call", D |-> D, holes |-> holes, latest |-> l,
                          lo |-> 0, hi |-> l,
                          found |-> l, queries |-> <<>>, ret |-> Null]

\* every awaited getCode settles: it resolves or it rejects
SearchSpec == SearchInit /\ [][ResolveNext]_vars /\ WF_vars(ResolveNext)

--------------------------------------------------------------------------
(* The candle functions: buildCandles (lib/chart/buildCandles.ts, the      *)
(* version that returns candles and volumes), and toCandlesAndVolume and   *)
(* applyTradeToLastBars of the TradingView chart. Prices and volumes are   *)
(* whole numbers of tenths, timestamps whole seconds; the colour of a      *)
(* volume bar is left out.                                                 *)

\* a number Number.isFinite rejects (NaN, an infinity)
NotFinite == -1000000

IsFinite(x) == x # NotFinite

\* Math.floor(t / intervalSec) * intervalSec
bucketOf(t, intervalSec) == (t \div intervalSec) * intervalSec

\* sort((a, b) => a.timestamp - b.timestamp), stable
RECURSIVE InsertByTime(_, _)
InsertByTime(s, p) ==
  IF s = <<>> THEN <<p>>
  ELSE IF Head(s).timestamp - p.timestamp <= 0 THEN <<Head(s)>> \o InsertByTime(Tail(s), p)
  ELSE <<p>> \o s

RECURSIVE SortByTime(_)
SortByTime(s) ==
  IF s = <<>> THEN <<>>
  ELSE InsertByTime(SortByTime(SubSeq(s, 1, Len(s) - 1)), s[Len(s)])

\* the candle and the volume bar a trade opens
NewCandle(t, p) == [time |-> t, open |-> p.price, high |-> p.price, low |-> p.price, close |-> p.price]
NewVolume(t, p) == [time |-> t, value |-> p.volume]

\* a bar update that moves the close alone
ExtendCandleCloseOnly(c, p) == [c EXCEPT !.close = p.price]

\* a bar update that keeps the close of the first trade
ExtendCandleKeepClose(c, p) ==
  [c EXCEPT !.high = Max(c.high, p.price), !.low = Min(c.low, p.price)]

\* high = max(high, price); low = min(low, price); close = price
ExtendCandle(c, p) ==
  [c EXCEPT !.high = Max(c.high, p.price), !.low = Min(c.low, p.price), !.close = p.price]

\* vol += p.volume
ExtendVolume(v, p) == [v EXCEPT !.value = v.value + p.volume]

NoBars == [candles |-> <<>>, volumes |-> <<>>]

\* .filter(p => Number.isFinite(p.timestamp) && Number.isFinite(p.value))
BuildFilter(pts) ==
  SelectSeq(pts, LAMBDA p : IsFinite(p.timestamp) /\ IsFinite(p.price))

\* the for loop of buildCandles from index i on, with the open bucket
\* (c, v) and the bars pushed so far
RECURSIVE BuildLoop(_, _, _, _, _, _)
BuildLoop(sorted, i, c, v, out, intervalSec) ==
  IF i > Len(sorted)
  THEN [candles |-> Append(out.candles, c), volumes |-> Append(out.volumes, v)]
  ELSE LET p == sorted[i]
           b == bucketOf(p.timestamp, intervalSec)
       IN IF b # c.time
          THEN BuildLoop(sorted, i + 1, NewCandle(b, p), NewVolume(b, p),
                         [candles |-> Append(out.candles, c),
                          volumes |-> Append(out.volumes, v)], intervalSec)
          ELSE BuildLoop(sorted, i + 1, ExtendCandle(c, p), ExtendVolume(v, p),
                         out, intervalSec)

\* the flat candles between two bars, each at the previous close
RECURSIVE FlatBars(_, _, _, _)
FlatBars(from, to, close, intervalSec) ==
  IF from >= to THEN NoBars
  ELSE LET rest == FlatBars(from + intervalSec, to, close, intervalSec)
       IN [candles |-> <<[time |-> from, open |-> close, high |-> close,
                          low |-> close, close |-> close]>> \o rest.candles,
           volumes |-> <<[time |-> from, value |-> 0]>> \o rest.volumes]

\* bars with every empty bucket between two of them filled in
RECURSIVE GapFilled(_, _)
GapFilled(bars, intervalSec) ==
  IF Len(bars.candles) <= 1 THEN bars
  ELSE LET n == Len(bars.candles)
           init == GapFilled([candles |-> SubSeq(bars.candles, 1, n - 1),
                              volumes |-> SubSeq(bars.volumes, 1, n - 1)], intervalSec)
           prev == bars.candles[n - 1]
           fill == FlatBars(prev.time + intervalSec, bars.candles[n].time,
                            prev.close, intervalSec)
       IN [candles |-> init.candles \o fill.candles \o <<bars.candles[n]>>,
           volumes |-> init.volumes \o fill.volumes \o <<bars.volumes[n]>>]

\* buildCandles without the gap filling taken out
buildCandlesGapFilled(pts, intervalSec) ==
  LET sorted == SortByTime(BuildFilter(pts))
  IN IF sorted = <<>> THEN NoBars
     ELSE LET b == bucketOf(sorted[1].timestamp, intervalSec)
          IN GapFilled(BuildLoop(sorted, 2, NewCandle(b, sorted[1]),
                                 NewVolume(b, sorted[1]), NoBars, intervalSec),
                       intervalSec)

buildCandles(pts, intervalSec) ==
  LET sorted == SortByTime(BuildFilter(pts))
  IN IF sorted = <<>> THEN NoBars
     ELSE LET b == bucketOf(sorted[1].timestamp, intervalSec)
          IN BuildLoop(sorted, 2, NewCandle(b, sorted[1]), NewVolume(b, sorted[1]),
                       NoBars, intervalSec)

\* the filter of chartPoints in CurvePriceChart, ahead of buildCandles
ChartPointsFilter(pts) ==
  SelectSeq(pts, LAMBDA p : /\ IsFinite(p.timestamp) /\ IsFinite(p.price)
                               /\ p.timestamp > 0 /\ p.price > 0)

\* bucketSec: Math.floor(Math.floor(ts) / intervalSec) * intervalSec
bucketSec(ts, intervalSec) == bucketOf(ts, intervalSec)

\* .filter(t => isFinite(t.timestamp) && isFinite(t.price) && isFinite(t.volume))
TvFilter(trades) ==
  SelectSeq(trades, LAMBDA t : IsFinite(t.timestamp) /\ IsFinite(t.price) /\ IsFinite(t.volume))

\* candleBuckets.get / set with one trade: a Map keeps insertion order
CandleUpsert(m, tr, intervalSec) ==
  LET t == bucketSec(tr.timestamp, intervalSec)
  IN IF \E i \in 1..Len(m) : m[i].time = t
     THEN [i \in 1..Len(m) |-> IF m[i].time = t THEN ExtendCandle(m[i], tr) ELSE m[i]]
     ELSE Append(m, NewCandle(t, tr))

\* volBuckets.get / set with one trade
VolumeUpsert(m, tr, intervalSec) ==
  LET t == bucketSec(tr.timestamp, intervalSec)
  IN IF \E i \in 1..Len(m) : m[i].time = t
     THEN [i \in 1..Len(m) |-> IF m[i].time = t THEN ExtendVolume(m[i], tr) ELSE m[i]]
     ELSE Append(m, NewVolume(t, tr))

RECURSIVE TvLoop(_, _, _)
TvLoop(sorted, out, intervalSec) ==
  IF sorted = <<>> THEN out
  ELSE TvLoop(Tail(sorted),
              [candles |-> CandleUpsert(out.candles, Head(sorted), intervalSec),
               volumes |-> VolumeUpsert(out.volumes, Head(sorted), intervalSec)],
              intervalSec)

\* sort((a, b) => a.time - b.time), stable
RECURSIVE InsertBar(_, _)
InsertBar(s, b) ==
  IF s = <<>> THEN <<b>>
  ELSE IF Head(s).time - b.time <= 0 THEN <<Head(s)>> \o InsertBar(Tail(s), b)
  ELSE <<b>> \o s

RECURSIVE SortBars(_)
SortBars(s) ==
  IF s = <<>> THEN <<>>
  ELSE InsertBar(SortBars(SubSeq(s, 1, Len(s) - 1)), s[Len(s)])

toCandlesAndVolume(trades, intervalSec) ==
  IF trades = <<>> THEN NoBars
  ELSE LET m == TvLoop(SortByTime(TvFilter(trades)), NoBars, intervalSec)
       IN [candles |-> SortBars(m.candles), volumes |-> SortBars(m.volumes)]

\* lastCandleRef.current / lastVolRef.current holding null
NoBar == [time |-> Null]

\* a test that only a missing bar opens a new one
IsNewBucketOnlyFirst(lastCandle, t) == lastCandle = NoBar

\* const isNewBucket = !lastCandle || lastCandle.time !== t
IsNewBucket(lastCandle, t) ==
  IF lastCandle = NoBar THEN TRUE ELSE lastCandle.time # t

\* an update that also moves the open to the new price
ApplyExtendMovesOpen(lastCandle, trade) ==
  [lastCandle EXCEPT !.open = trade.price,
                     !.high = Max(lastCandle.high, trade.price),
                     !.low = Min(lastCandle.low, trade.price),
                     !.close = trade.price]

\* { ...lastCandle, high: max(..), low: min(..), close: trade.price }
ApplyExtend(lastCandle, trade) ==
  [lastCandle EXCEPT !.high = Max(lastCandle.high, trade.price),
                     !.low = Min(lastCandle.low, trade.price),
                     !.close = trade.price]

applyTradeToLastBars(trade, intervalSec, lastCandle, lastVol) ==
  LET t == bucketSec(trade.timestamp, intervalSec)
      isNewBucket == IsNewBucket(lastCandle, t)
  IN [candle |-> IF isNewBucket THEN NewCandle(t, trade)
                 ELSE ApplyExtend(lastCandle, trade),
      vol |-> IF isNewBucket THEN NewVolume(t, trade)
              ELSE [time |-> t,
                    value |-> (IF lastVol = NoBar THEN 0 ELSE lastVol.value)
                                + trade.volume]]

--------------------------------------------------------------------------
(* The candle functions called on their own                               *)

\* longest trades array of the calls
MaxCandleLen == 3

\* the trades the arrays are built from: the three trades of the worked
\* example, a trade whose timestamp is still 0, a trade with price 0, and
\* trades with a timestamp or a price that is not finite
CandleTrades ==
  { [timestamp |-> 100, price |-> 10, volume |-> 2],
    [timestamp |-> 101, price |-> 12, volume |-> 3],
    [timestamp |-> 130, price |-> 9,  volume |-> 1],
    [timestamp |-> 0,   price |-> 11, volume |-> 1],
    [timestamp |-> 119, price |-> 0,  volume |-> 1],
    [timestamp |-> NotFinite, price |-> 10, volume |-> 1],
    [timestamp |-> 125, price |-> NotFinite, volume |-> 1] }

CandleArgs == UNION {[1..n -> CandleTrades] : n \in 0..MaxCandleLen}

\* the candle widths of the calls, in seconds
CandleWidths == {60, 15}

LastOf(s) == IF s = <<>> THEN NoBar ELSE s[Len(s)]

CandleInit ==
  /\ HookInit
  /\ cacheCall = NoCall
  /\ tvChart = NoCall
  /\ dexHook = NoCall
  /\ mergeCall = NoCall
  /\ chunkCall = NoCall
  /\ resolveCall = NoCall
  /\ \E tr \in CandleArgs, w \in CandleWidths :
       candleCall = [pc |-> "args", trades |-> tr, width |-> w,
                     built |-> NoBars, curve |-> NoBars, tv |-> NoBars,
                     base |-> 0, prevLen |-> 0,
                     lastCandle |-> NoBar, lastVol |-> NoBar, arg |-> NoBar]

\* buildCandles(points, intervalSec)
CallBuildCandles ==
  /\ candleCall.pc = "args"
  /\ candleCall' = [candleCall EXCEPT !.pc = "built",
       !.built = buildCandles(candleCall.trades, candleCall.width)]
  /\ UNCHANGED << hookVars, cacheCall, tvChart, dexHook, mergeCall, chunkCall, resolveCall >>

\* CurvePriceChart: buildCandles on the filtered chartPoints
CallChartPoints ==
  /\ candleCall.pc = "built"
  /\ candleCall' = [candleCall EXCEPT !.pc = "curve",
       !.curve = buildCandles(ChartPointsFilter(candleCall.trades), candleCall.width)]
  /\ UNCHANGED << hookVars, cacheCall, tvChart, dexHook, mergeCall, chunkCall, resolveCall >>

\* toCandlesAndVolume(trades, interval)
CallToCandlesAndVolume ==
  /\ candleCall.pc = "curve"
  /\ candleCall' = [candleCall EXCEPT !.pc = "tv",
       !.tv = toCandlesAndVolume(candleCall.trades, candleCall.width)]
  /\ UNCHANGED << hookVars, cacheCall, tvChart, dexHook, mergeCall, chunkCall, resolveCall >>

\* the setData effect when the chart held the first n trades: the last
\* bars of the rebuild become the baseline of the incremental updates
SetData(n) ==
  /\ candleCall.pc = "tv"
  /\ n \in 1..Len(candleCall.trades)
  /\ LET bars == toCandlesAndVolume(SubSeq(candleCall.trades, 1, n), candleCall.width)
     IN candleCall' = [candleCall EXCEPT !.pc = "apply", !.base = n, !.prevLen = n,
                                         !.lastCandle = LastOf(bars.candles),
                                         !.lastVol = LastOf(bars.volumes)]
  /\ UNCHANGED << hookVars, cacheCall, tvChart, dexHook, mergeCall, chunkCall, resolveCall >>

\* one round of the realtime effect's loop over the new trades; without a
\* baseline the effect returns at once
ApplyNewTrade ==
  /\ candleCall.pc = "apply"
  /\ LET i == candleCall.prevLen + 1
         n == Len(candleCall.trades)
     IN IF i > n \/ candleCall.lastCandle = NoBar \/ candleCall.lastVol = NoBar
        THEN candleCall' = [candleCall EXCEPT !.pc = "done", !.prevLen = n]
        ELSE LET tr == candleCall.trades[i]
                 r == applyTradeToLastBars(tr, candleCall.width,
                                           candleCall.lastCandle, candleCall.lastVol)
             IN IF ~(IsFinite(tr.timestamp) /\ IsFinite(tr.price) /\ IsFinite(tr.volume))
                THEN candleCall' = [candleCall EXCEPT !.prevLen = i]
                ELSE candleCall' = [candleCall EXCEPT !.prevLen = i,
                                                      !.lastCandle = r.candle,
                                                      !.lastVol = r.vol]
  /\ UNCHANGED << hookVars, cacheCall, tvChart, dexHook, mergeCall, chunkCall, resolveCall >>

\* applyTradeToLastBars called with trade tr on the last bars of the
\* rebuild, or on no bars
CallApplyTrade(tr, fresh) ==
  /\ candleCall.pc = "tv"
  /\ IsFinite(tr.timestamp) /\ IsFinite(tr.price)
  /\ LET lc == IF fresh THEN NoBar ELSE LastOf(candleCall.tv.candles)
         lv == IF fresh THEN NoBar ELSE LastOf(candleCall.tv.volumes)
         r == applyTradeToLastBars(tr, candleCall.width, lc, lv)
     IN candleCall' = [candleCall EXCEPT !.pc = "applied",
                                         !.arg = [trade |-> tr, lastCandle |-> lc,
                                                  lastVol |-> lv],
                                         !.lastCandle = r.candle, !.lastVol = r.vol]
  /\ UNCHANGED << hookVars, cacheCall, tvChart, dexHook, mergeCall, chunkCall, resolveCall >>

CandleNext ==
  \/ CallBuildCandles
  \/ CallChartPoints
  \/ CallToCandlesAndVolume
  \/ \E n \in 1..MaxCandleLen + 1 : SetData(n)
  \/ ApplyNewTrade
  \/ \E tr \in CandleTrades, fresh \in BOOLEAN : CallApplyTrade(tr, fresh)

CandleSpec == CandleInit /\ [][CandleNext]_vars

--------------------------------------------------------------------------
(* buildCandles of readProvider.ts in the version that returns Candle[]   *)
(* and prints a candle for every bucket, called on its own                *)

\* map.set(b, { open, high, low, close }) for the first point of a bucket
NewBucket(p) == [open |-> p.price, high |-> p.price, low |-> p.price, close |-> p.price]

\* existing.high = max; existing.low = min; existing.close = p.value
ExtendBucket(b, p) ==
  [b EXCEPT !.high = Max(b.high, p.price), !.low = Min(b.low, p.price), !.close = p.price]

\* the loop that aggregates the sorted points into the map of buckets
RECURSIVE FillBuckets(_, _, _, _)
FillBuckets(sorted, i, map, intervalSec) ==
  IF i > Len(sorted) THEN map
  ELSE LET p == sorted[i]
           b == bucketOf(p.timestamp, intervalSec)
       IN IF b \notin DOMAIN map
          THEN FillBuckets(sorted, i + 1, map @@ (b :> NewBucket(p)), intervalSec)
          ELSE FillBuckets(sorted, i + 1, [map EXCEPT ![b] = ExtendBucket(@, p)],
                           intervalSec)

\* opts?.nowSec ?? Math.floor(Date.now() / 1000), the clock reading now
NowSec(opts, now) == IF opts.nowSec # Null THEN opts.nowSec ELSE now

\* a last bucket that follows the clock alone
LastBucketOfNow(lastTradeBucket, opts, now, intervalSec) ==
  IF opts.extendToNow THEN bucketOf(NowSec(opts, now), intervalSec)
  ELSE lastTradeBucket

\* opts?.extendToNow ? Math.max(lastTradeBucket, bucketOf(nowSec)) : lastTradeBucket
LastBucket(lastTradeBucket, opts, now, intervalSec) ==
  IF opts.extendToNow
  THEN Max(lastTradeBucket, bucketOf(NowSec(opts, now), intervalSec))
  ELSE lastTradeBucket

\* for (t = firstBucket; t <= lastBucket; t += intervalSec)
RECURSIVE FillLoop(_, _, _, _, _, _)
FillLoop(t, lastBucket, map, prevClose, out, intervalSec) ==
  IF t > lastBucket THEN out
  ELSE IF t \in DOMAIN map
       THEN FillLoop(t + intervalSec, lastBucket, map, map[t].close,
                     Append(out, [time |-> t, open |-> map[t].open, high |-> map[t].high,
                                  low |-> map[t].low, close |-> map[t].close]),
                     intervalSec)
       ELSE FillLoop(t + intervalSec, lastBucket, map, prevClose,
                     Append(out, [time |-> t, open |-> prevClose, high |-> prevClose,
                                  low |-> prevClose, close |-> prevClose]),
                     intervalSec)

\* buildCandles(points, intervalSec, opts): Candle[]
buildCandlesFilled(pts, intervalSec, opts, now) ==
  IF Len(pts) = 0 THEN <<>>
  ELSE LET sorted == SortByTime(BuildFilter(pts))
       IN IF Len(sorted) = 0 THEN <<>>
          ELSE LET map == FillBuckets(sorted, 1, <<>>, intervalSec)
                   firstBucket == bucketOf(sorted[1].timestamp, intervalSec)
                   lastTradeBucket == bucketOf(sorted[Len(sorted)].timestamp, intervalSec)
                   lastBucket == LastBucket(lastTradeBucket, opts, now, intervalSec)
               IN FillLoop(firstBucket, lastBucket, map, map[firstBucket].close,
                           <<>>, intervalSec)

\* the options of the calls: extendToNow set or not, nowSec given or not
FillOpts == [extendToNow : BOOLEAN, nowSec : {Null, 95}]

\* the readings of the clock, before and after the trades
FillNows == {50, 170}

FillInit ==
  /\ HookInit
  /\ cacheCall = NoCall
  /\ tvChart = NoCall
  /\ dexHook = NoCall
  /\ mergeCall = NoCall
  /\ chunkCall = NoCall
  /\ resolveCall = NoCall
  /\ \E tr \in CandleArgs, w \in CandleWidths, o \in FillOpts, now \in FillNows :
       candleCall = [pc |-> "args", trades |-> tr, width |-> w, opts |-> o,
                     now |-> now, filled |-> <<>>]

\* buildCandles(points, intervalSec, opts)
CallBuildCandlesFilled ==
  /\ candleCall.pc = "args"
  /\ candleCall' = [candleCall EXCEPT !.pc = "filled",
       !.filled = buildCandlesFilled(candleCall.trades, candleCall.width,
                                     candleCall.opts, candleCall.now)]
  /\ UNCHANGED << hookVars, cacheCall, tvChart, dexHook, mergeCall, chunkCall, resolveCall >>

FillNext == CallBuildCandlesFilled

FillSpec == FillInit /\ [][FillNext]_vars

--------------------------------------------------------------------------
(* The cache reads at the head of fetchTrades on their own: the entries   *)
(* of localStorage are texts anyone with access to the origin can have    *)
(* written, not only the texts fetchTrades writes                         *)

\* localStorage.getItem(k): null, or the text stored
NoItem == [present |-> FALSE, text |-> ""]
Item(s) == [present |-> TRUE, text |-> s]

\* Number(text) for the texts of the model: decimal numbers convert to
\* their value, the empty text and a text of white space to 0, "Infinity"
\* to an infinity, any other text to NaN
NumberOf ==
  ("" :> 0) @@ ("   " :> 0) @@ ("abc" :> NotFinite) @@ ("Infinity" :> NotFinite) @@
  ("-3" :> -3) @@ ("0" :> 0) @@ ("7" :> 7) @@ ("991" :> 991) @@ ("1000" :> 1000) @@
  ("1004" :> 1004) @@ ("2000" :> 2000)

\* String(n): the decimal text of n
StringOf(n) ==
  CHOOSE s \in DOMAIN NumberOf \ {"", "   "} : NumberOf[s] = n

\* if (!v) return null; n = Number(v); return Number.isFinite(n) ? n : null
safeParseInt(v) ==
  IF ~v.present \/ v.text = "" THEN Null
  ELSE IF IsFinite(NumberOf[v.text]) THEN NumberOf[v.text] ELSE Null

\* what the two entries of a key can hold when a cycle reads them
StoredItems == {NoItem} \cup {Item(s) : s \in DOMAIN NumberOf}

\* the chain heads of the calls
CacheLatests == {1000, 1004}

CacheInit ==
  /\ HookInit
  /\ tvChart = NoCall
  /\ dexHook = NoCall
  /\ candleCall = NoCall
  /\ mergeCall = NoCall
  /\ chunkCall = NoCall
  /\ resolveCall = NoCall
  /\ \E k \in Keys, l \in CacheLatests, d \in StoredItems, c \in StoredItems,
        dref \in {Null, 991}, cref \in {Null, 1000} :
       cacheCall = [pc |-> "latest", key |-> k, latest |-> l,
                    deployItem |-> d, cursorItem |-> c,
                    deployBlockRef |-> dref, cursorRef |-> cref,
                    deployRead |-> FALSE, cursorRead |-> FALSE,
                    searched |-> FALSE, fromBlock |-> Null,
                    arg |-> [deployItem |-> d, deployBlockRef |-> dref,
                             cursorRef |-> cref]]

\* the cursor block and the scan range, with deployBlockRef.current set
CacheCursor(c) ==
  LET cached == safeParseInt(c.cursorItem)
      cur == IF c.cursorRef = Null
             THEN (IF CursorCacheValid(cached, c.latest) THEN cached ELSE Null)
             ELSE c.cursorRef
  IN [c EXCEPT !.pc = "logs", !.cursorRef = cur,
               !.cursorRead = (c.cursorRef = Null),
               !.fromBlock = ScanFrom(c.deployBlockRef, cur)]

\* getBlockNumber resolved: the deploy block from the ref or from a valid
\* entry, else on to the await of findContractDeployBlock
CacheGetBlockNumberReply ==
  /\ cacheCall.pc = "latest"
  /\ LET cached == safeParseInt(cacheCall.deployItem)
     IN cacheCall' =
          IF cacheCall.deployBlockRef # Null THEN CacheCursor(cacheCall)
          ELSE IF DeployCacheValid(cached, cacheCall.latest)
          THEN CacheCursor([cacheCall EXCEPT !.deployBlockRef = cached,
                                             !.deployRead = TRUE])
          ELSE [cacheCall EXCEPT !.pc = "deploy", !.deployRead = TRUE]
  /\ UNCHANGED << hookVars, mergeCall, chunkCall, resolveCall, candleCall, tvChart, dexHook >>

\* findContractDeployBlock resolved: the ref is set and setItem called,
\* which can throw and is then ignored
CacheDeployReply(wrote) ==
  /\ cacheCall.pc = "deploy"
  /\ LET found == findContractDeployBlock(cacheCall.key, cacheCall.latest)
     IN cacheCall' =
          CacheCursor([cacheCall EXCEPT
            !.deployBlockRef = found, !.searched = TRUE,
            !.deployItem = IF wrote THEN Item(StringOf(found)) ELSE @])
  /\ UNCHANGED << hookVars, mergeCall, chunkCall, resolveCall, candleCall, tvChart, dexHook >>

CacheNext ==
  \/ CacheGetBlockNumberReply
  \/ \E wrote \in BOOLEAN : CacheDeployReply(wrote)

CacheSpec == CacheInit /\ [][CacheNext]_vars

--------------------------------------------------------------------------
(* TradingViewChart: the effects that keep the last bars                  *)

\* longest trades array passed to the chart
MaxChartLen == 3

\* lastCandleRef, lastVolRef, prevLenRef as first created
NoRefs == [lastCandle |-> NoBar, lastVol |-> NoBar, prevLen |-> 0]

\* a setData effect that leaves prevLenRef alone
SetDataKeepsPrevLen(refs, ready, trades, bars) ==
  IF ~ready THEN refs
  ELSE [refs EXCEPT !.lastCandle = LastOf(bars.candles),
                    !.lastVol = LastOf(bars.volumes)]

\* the setData effect: the last bars of the rebuild become the baseline
SetDataEffect(refs, ready, trades, bars) ==
  IF ~ready THEN refs
  ELSE [lastCandle |-> LastOf(bars.candles),
        lastVol |-> LastOf(bars.volumes),
        prevLen |-> Len(trades)]

\* for (const tr of newTrades): non-finite trades skipped, the others
\* applied to the last bars
RECURSIVE ApplyAll(_, _, _)
ApplyAll(refs, newTrades, interval) ==
  IF newTrades = <<>> THEN refs
  ELSE LET tr == Head(newTrades)
           r == applyTradeToLastBars(tr, interval, refs.lastCandle, refs.lastVol)
       IN IF ~(IsFinite(tr.timestamp) /\ IsFinite(tr.price) /\ IsFinite(tr.volume))
          THEN ApplyAll(refs, Tail(newTrades), interval)
          ELSE ApplyAll([refs EXCEPT !.lastCandle = r.candle, !.lastVol = r.vol],
                        Tail(newTrades), interval)

\* the realtime effect
RealtimeEffect(refs, ready, trades, interval) ==
  IF ~ready THEN refs
  ELSE IF Len(trades) <= refs.prevLen THEN [refs EXCEPT !.prevLen = Len(trades)]
  ELSE IF refs.lastCandle = NoBar \/ refs.lastVol = NoBar
  THEN [refs EXCEPT !.prevLen = Len(trades)]
  ELSE [ApplyAll(refs, SubSeq(trades, refs.prevLen + 1, Len(trades)), interval)
          EXCEPT !.prevLen = Len(trades)]

\* the effects of one commit, in the order they are declared; an effect
\* runs when one of its dependencies changed (the memoized candles change
\* with trades and interval)
Effects(refs, ready, trades, interval, dataDeps, realtimeDeps) ==
  LET bars == toCandlesAndVolume(trades, interval)
      r1 == IF dataDeps THEN SetDataEffect(refs, ready, trades, bars) ELSE refs
  IN IF realtimeDeps THEN RealtimeEffect(r1, ready, trades, interval) ELSE r1

ChartInit ==
  /\ HookInit
  /\ cacheCall = NoCall
  /\ mergeCall = NoCall
  /\ chunkCall = NoCall
  /\ resolveCall = NoCall
  /\ candleCall = NoCall
  /\ dexHook = NoCall
  /\ tvChart = [pc |-> "unmounted", ready |-> FALSE, trades |-> <<>>, interval |-> 60,
                autoScroll |-> TRUE, refs |-> NoRefs, renders |-> 0]

\* first commit: the chart is created and setReady(true) is queued; the
\* setData and realtime effects run with ready still false
ChartMount(tr) ==
  /\ tvChart.pc = "unmounted"
  /\ Len(tr) <= MaxChartLen
  /\ tvChart' = [tvChart EXCEPT !.pc = "created", !.trades = tr, !.ready = FALSE,
                                !.refs = Effects(NoRefs, FALSE, tr, tvChart.interval, TRUE, TRUE),
                                !.renders = 0]
  /\ UNCHANGED << hookVars, cacheCall, mergeCall, chunkCall, resolveCall, candleCall, dexHook >>

\* the re-render that setReady(true) causes
ChartReady ==
  /\ tvChart.pc = "created"
  /\ tvChart' = [tvChart EXCEPT !.pc = "ready", !.ready = TRUE,
                                !.refs = Effects(tvChart.refs, TRUE, tvChart.trades,
                                                 tvChart.interval, TRUE, TRUE)]
  /\ UNCHANGED << hookVars, cacheCall, mergeCall, chunkCall, resolveCall, candleCall, dexHook >>

\* the parent renders the chart with a longer trades array
ChartTradesGrow(new) ==
  /\ tvChart.pc \in {"created", "ready"}
  /\ new # <<>>
  /\ Len(tvChart.trades) + Len(new) <= MaxChartLen
  /\ LET tr == tvChart.trades \o new
     IN tvChart' = [tvChart EXCEPT !.trades = tr,
                                   !.refs = Effects(tvChart.refs, tvChart.ready, tr,
                                                    tvChart.interval, TRUE, TRUE),
                                   !.renders = 1]
  /\ UNCHANGED << hookVars, cacheCall, mergeCall, chunkCall, resolveCall, candleCall, dexHook >>

\* the parent renders the chart with another candleIntervalSec
ChartIntervalChange(w) ==
  /\ tvChart.pc \in {"created", "ready"}
  /\ w # tvChart.interval
  /\ tvChart' = [tvChart EXCEPT !.interval = w,
                                !.refs = Effects(tvChart.refs, tvChart.ready, tvChart.trades,
                                                 w, TRUE, TRUE)]
  /\ UNCHANGED << hookVars, cacheCall, mergeCall, chunkCall, resolveCall, candleCall, dexHook >>

\* the parent renders the chart with another autoScroll: only the realtime
\* effect depends on it
ChartAutoScrollChange ==
  /\ tvChart.pc \in {"created", "ready"}
  /\ tvChart' = [tvChart EXCEPT !.autoScroll = ~tvChart.autoScroll,
                                !.refs = Effects(tvChart.refs, tvChart.ready, tvChart.trades,
                                                 tvChart.interval, FALSE, TRUE)]
  /\ UNCHANGED << hookVars, cacheCall, mergeCall, chunkCall, resolveCall, candleCall, dexHook >>

\* the cleanup of the chart effect
ChartUnmount ==
  /\ tvChart.pc \in {"created", "ready"}
  /\ tvChart' = [tvChart EXCEPT !.pc = "unmounted", !.ready = FALSE, !.trades = <<>>,
                                !.refs = NoRefs, !.renders = 0]
  /\ UNCHANGED << hookVars, cacheCall, mergeCall, chunkCall, resolveCall, candleCall, dexHook >>

ChartNext ==
  \/ \E tr \in CandleArgs : ChartMount(tr)
  \/ ChartReady
  \/ \E new \in CandleArgs : ChartTradesGrow(new)
  \/ \E w \in CandleWidths : ChartIntervalChange(w)
  \/ ChartAutoScrollChange
  \/ ChartUnmount

ChartSpec == ChartInit /\ [][ChartNext]_vars

--------------------------------------------------------------------------
(* useDexPairTrades: the effect, its load and its Sync listener           *)

\* effect runs of one instance
MaxDexEffects == 3

\* Sync events delivered to the listeners
MaxSyncs == 2

DexPairs == {"p", "q"}
DexEffects == 1..MaxDexEffects

\* the awaits of load, in order
DexAwaits == <<"getBlockNumber", "tokens", "queryFilter", "getBlock", "getReserves">>

DexNext(at) ==
  CASE at = "getBlockNumber" -> "tokens"
    [] at = "tokens" -> "queryFilter"
    [] at = "queryFilter" -> "getBlock"
    [] at = "getBlock" -> "getReserves"
    [] OTHER -> "done"

\* a React state setter of the instance: dropped once it is unmounted
DexSetState(old, new) == IF dexHook.mounted THEN new ELSE old

\* if (pair.on && pair.off) pair.on("Sync", onSync)
Subscribed(listeners, e) == listeners \cup {e}

\* the effect's cleanup: cancelled = true; if (cleanup) cleanup()
DexCleanup(h) ==
  IF h.current = 0 THEN h
  ELSE [h EXCEPT !.cancelled[h.current] = TRUE,
                 !.listeners = IF h.cleanup[h.current] THEN h.listeners \ {h.current}
                               ELSE h.listeners,
                 !.current = 0]

\* the effect body with pair address k, up to the first await of load
DexEffect(h, k) ==
  IF k = NoKey
  THEN [h EXCEPT !.key = k, !.points = <<>>]
  ELSE LET e == h.gen + 1
       IN [h EXCEPT !.key = k, !.gen = e, !.current = e,
                    !.at[e] = "getBlockNumber",
                    !.loading = TRUE, !.error = NoError]

DexInit ==
  /\ HookInit
  /\ cacheCall = NoCall
  /\ mergeCall = NoCall
  /\ chunkCall = NoCall
  /\ resolveCall = NoCall
  /\ candleCall = NoCall
  /\ tvChart = NoCall
  /\ dexHook = [pc |-> "on", mounted |-> FALSE, key |-> NoKey, gen |-> 0, current |-> 0,
                at |-> [e \in DexEffects |-> "none"],
                cancelled |-> [e \in DexEffects |-> FALSE],
                cleanup |-> [e \in DexEffects |-> FALSE],
                listeners |-> {}, syncing |-> {}, syncs |-> 0,
                points |-> <<>>, loading |-> FALSE, error |-> NoError]

\* first render: useState initial values, then the effect
DexMount(k) ==
  /\ dexHook.pc = "on"
  /\ ~dexHook.mounted
  /\ dexHook.gen < MaxDexEffects
  /\ dexHook' = DexEffect([dexHook EXCEPT !.mounted = TRUE, !.points = <<>>,
                                          !.loading = FALSE, !.error = NoError], k)
  /\ UNCHANGED << hookVars, cacheCall, mergeCall, chunkCall, resolveCall, candleCall, tvChart >>

\* pairAddress or tokenAddress changes: cleanup of the old effect, then
\* the effect again
DexKeyChange(k) ==
  /\ dexHook.pc = "on"
  /\ dexHook.mounted
  /\ k # dexHook.key
  /\ dexHook.gen < MaxDexEffects
  /\ dexHook' = DexEffect(DexCleanup(dexHook), k)
  /\ UNCHANGED << hookVars, cacheCall, mergeCall, chunkCall, resolveCall, candleCall, tvChart >>

\* unmount: the cleanup of the effect
DexUnmount ==
  /\ dexHook.pc = "on"
  /\ dexHook.mounted
  /\ dexHook' = [DexCleanup(dexHook) EXCEPT !.mounted = FALSE]
  /\ UNCHANGED << hookVars, cacheCall, mergeCall, chunkCall, resolveCall, candleCall, tvChart >>

\* an await of load of effect e settles; after the last one the tail of
\* the try block runs, then finally, then the .then that stores the cleanup
DexReply(e, ok) ==
  /\ dexHook.pc = "on"
  /\ dexHook.at[e] \in {DexAwaits[i] : i \in 1..Len(DexAwaits)}
  /\ LET c == dexHook.cancelled[e]
         at == dexHook.at[e]
     IN IF ~ok /\ at # "getReserves"
        THEN dexHook' = [dexHook EXCEPT
               !.at[e] = "failed",
               !.error = IF c THEN @ ELSE DexSetState(@, "Failed to load DEX trades"),
               !.points = IF c THEN @ ELSE DexSetState(@, <<>>),
               !.loading = IF c THEN @ ELSE DexSetState(@, FALSE)]
        ELSE IF DexNext(at) # "done"
        THEN dexHook' = [dexHook EXCEPT !.at[e] = DexNext(at)]
        ELSE dexHook' = [dexHook EXCEPT
               !.at[e] = "done",
               !.points = IF c THEN @ ELSE DexSetState(@, <<[src |-> e, by |-> "load"]>>),
               !.listeners = Subscribed(@, e),
               !.cleanup[e] = TRUE,
               !.loading = IF c THEN @ ELSE DexSetState(@, FALSE)]
  /\ UNCHANGED << hookVars, cacheCall, mergeCall, chunkCall, resolveCall, candleCall, tvChart >>

\* the pair emits Sync: onSync of a subscribed effect runs up to its await
DexSync(e) ==
  /\ dexHook.pc = "on"
  /\ e \in dexHook.listeners
  /\ e \notin dexHook.syncing
  /\ dexHook.syncs < MaxSyncs
  /\ dexHook' = [dexHook EXCEPT !.syncing = @ \cup {e}, !.syncs = @ + 1]
  /\ UNCHANGED << hookVars, cacheCall, mergeCall, chunkCall, resolveCall, candleCall, tvChart >>

\* provider.getBlock("latest") of onSync settles
DexSyncReply(e, ok) ==
  /\ dexHook.pc = "on"
  /\ e \in dexHook.syncing
  /\ dexHook' = [dexHook EXCEPT
       !.syncing = @ \ {e},
       !.points = IF ok THEN DexSetState(@, Append(@, [src |-> e, by |-> "sync"])) ELSE @]
  /\ UNCHANGED << hookVars, cacheCall, mergeCall, chunkCall, resolveCall, candleCall, tvChart >>

DexHookNext ==
  \/ \E k \in DexPairs \cup {NoKey} : DexMount(k)
  \/ \E k \in DexPairs \cup {NoKey} : DexKeyChange(k)
  \/ DexUnmount
  \/ \E e \in DexEffects, ok \in BOOLEAN : DexReply(e, ok)
  \/ \E e \in DexEffects : DexSync(e)
  \/ \E e \in DexEffects, ok \in BOOLEAN : DexSyncReply(e, ok)

DexSpec == DexInit /\ [][DexHookNext]_vars

--------------------------------------------------------------------------
(* Steps of the refresh cycle, as seen from outside                       *)

\* a step taken by the running fetchTrades call (not by a render or trigger)
CycleStep == pc # "idle" /\ (pc' # pc \/ fetch' # fetch \/ tsTodo' # tsTodo)

\* the step on which a cycle ends in its catch block
FailStep == pc # "idle" /\ pc' = "idle" /\ last'.res = "failed"

\* the step on which a cycle ends at the end of its try block
SuccessStep == pc # "idle" /\ pc' = "idle" /\ last'.res = "ok"

\* the state right after the reset effect
ResetState ==
  /\ points' = <<>>
  /\ loading' = TRUE
  /\ error' = NoError
  /\ cursorRef' = Null
  /\ deployBlockRef' = Null

--------------------------------------------------------------------------
(* C1  single-flight                                                      *)

\* C1 (as stated): at most one refresh cycle is past the in-flight guard at
\* any time, and every refresh trigger that arrives while a cycle is
\* scanning -- a block notification, an interval tick or the fetchTrades()
\* call of a re-run trigger effect -- is a no-op: no RPC request is issued
\* and points, cursor, deploy block, loading and error keep the values they
\* had before the call (for an effect re-run: the values the reset effect
\* has just set).
C1_AnyTriggerIsNoOp ==
  /\ [](active <= 1 /\ (inFlightRef <=> active = 1))
  /\ [][(pc # "idle" /\ (OnBlock \/ IntervalTick))
          => /\ UNCHANGED << points, cursorRef, deployBlockRef, loading, error >>
             /\ Outstanding' = Outstanding]_vars
  /\ [][(pc # "idle" /\ \E k \in Keys \cup {NoKey} : KeyChange(k))
          => ResetState /\ Outstanding' = Outstanding]_vars

\* C1 (amended): as above, for the triggers of a hook that has a campaign
\* address; a re-run of the trigger effect without a campaign address takes
\* the branch ahead of the guard and sets loading to false.
C1_SingleFlight ==
  /\ [](active <= 1 /\ (inFlightRef <=> active = 1))
  /\ [][(pc # "idle" /\ (OnBlock \/ IntervalTick))
          => /\ UNCHANGED << points, cursorRef, deployBlockRef, loading, error >>
             /\ Outstanding' = Outstanding]_vars
  /\ [][(pc # "idle" /\ \E k \in Keys : KeyChange(k))
          => ResetState /\ Outstanding' = Outstanding]_vars
  /\ [][(pc # "idle" /\ KeyChange(NoKey))
          => /\ points' = <<>> /\ loading' = FALSE /\ error' = NoError
             /\ Outstanding' = Outstanding]_vars

\* a cycle for one key is still scanning after the key changed to another
\* entity: the fetchTrades() of the re-run effect was dropped
C1_Witness ==
  /\ mounted /\ key \in Keys /\ ~stable
  /\ pc \in {"logs", "ts"} /\ cycKey # key /\ active = 1

--------------------------------------------------------------------------
(* C2  no duplicate keys                                                  *)

\* C2: in every reachable value of points, no two records have the same
\* (transactionHash, logIndex).
C2_NoDuplicateKeys ==
  \A i, j \in 1..Len(points) : i # j => keyOf(points[i]) # keyOf(points[j])

\* a merge has just met a record whose key was already in points
C2_Witness ==
  mounted /\ last.res = "ok" /\ last.collide /\ Len(points) >= 2

--------------------------------------------------------------------------
(* C3  sorted by (blockNumber, logIndex)                                  *)

\* C3: in every reachable value of points, the records are in ascending
\* (blockNumber, logIndex) order, ties on blockNumber broken by logIndex.
C3_Sorted ==
  \A i, j \in 1..Len(points) :
     i < j => \/ points[i].blockNumber < points[j].blockNumber
              \/ /\ points[i].blockNumber = points[j].blockNumber
                 /\ points[i].logIndex <= points[j].logIndex

\* points holds two trades of one block (a sell and a buy) next to others
C3_Witness ==
  /\ mounted /\ last.res = "ok" /\ Len(points) >= 3
  /\ \E i \in 1..(Len(points) - 1) :
       /\ points[i].blockNumber = points[i + 1].blockNumber
       /\ points[i].logIndex < points[i + 1].logIndex
       /\ points[i].type = "sell" /\ points[i + 1].type = "buy"

--------------------------------------------------------------------------
(* C4  a failed cycle keeps the previous points                           *)

\* C4: the step on which a cycle fails (getBlockNumber, deploy-block
\* resolution or log fetching threw) leaves points as it was, and for a
\* mounted hook sets error to a message and loading to false.
C4_FailureKeepsPoints ==
  [][FailStep => /\ points' = points
                 /\ (mounted => (error' # NoError /\ loading' = FALSE))]_vars

\* a cycle has just failed while trades were on display
C4_Witness ==
  /\ mounted /\ pc = "idle" /\ last.res = "failed"
  /\ points # <<>> /\ error # NoError /\ ~loading

--------------------------------------------------------------------------
(* C5  three failed attempts on one sub-range                             *)

\* the step on which the third attempt on one sub-range fails
LogsFailStep == pc = "logs" /\ FailStep

\* C5: when a getLogs sub-range fails its third attempt, the cycle ends
\* with an error, points is unchanged (nothing fetched in the cycle is
\* merged), the cursor is unchanged in memory and in storage, and the next
\* cycle for the same key scans from the same fromBlock.
C5_FailedFetch ==
  /\ [][LogsFailStep => /\ points' = points
                        /\ cursorRef' = cursorRef
                        /\ lsCursor' = lsCursor
                        /\ (mounted => error' # NoError)]_vars
  /\ []((pc \in {"logs", "ts"} /\ last.res = "rescan") => fromBlock = last.from)

\* the cycle after a failed fetch that had already fetched some logs is
\* scanning again, from the fromBlock of the failed cycle
C5_Witness ==
  /\ mounted /\ pc = "logs" /\ last.res = "rescan" /\ last.partial
  /\ fromBlock = last.from /\ points = <<>>

--------------------------------------------------------------------------
(* C6  a successful cycle                                                 *)

\* the values newPoints can take on the step that ends the cycle
NewPointsOptions ==
  IF pc = "ts"
  THEN {WithTimestamps(combined, ts) : ts \in {blockTs, TsSet(blockTs, Head(tsTodo))}}
  ELSE {<<>>}

\* what a successful cycle's last step does apart from the storage write
CommitInMemory ==
  /\ cursorRef' = latest
  /\ \A k \in Keys \ {cycKey} : lsCursor'[k] = lsCursor[k]
  /\ (mounted => /\ loading' = FALSE
                 /\ error' = NoError
                 /\ \E new \in NewPointsOptions : points' = mergeTrades(points, new))

\* C6 (as stated): on the step that ends a successful cycle the cursor, in
\* memory and in storage for the cycle's entity, becomes the latest block
\* read at the start of the cycle, points becomes merge(points, the trades
\* normalized in the cycle), loading false and error null.
C6_CursorPersisted ==
  [][SuccessStep => (CommitInMemory /\ lsCursor'[cycKey] = latest)]_vars

\* C6 (amended): as above, but the stored cursor becomes that block only
\* when localStorage.setItem does not throw; when it throws the stored
\* cursor keeps its value (the in-memory cursor still advances).
C6_Commit ==
  [][SuccessStep => (CommitInMemory /\ lsCursor'[cycKey] \in {latest, lsCursor[cycKey]})]_vars

\* a cycle has just succeeded after the chain moved on during it: the cursor
\* is the block read at its start, not the head, and trades were merged
C6_Witness ==
  /\ mounted /\ pc = "idle" /\ last.res = "ok" /\ ~loading /\ error = NoError
  /\ cursorRef # Null /\ cursorRef < head /\ lsCursor[key] = cursorRef
  /\ points # <<>>

--------------------------------------------------------------------------
(* C7  the scan range                                                     *)

\* C7: while a cycle scans, with the deploy block resolved: the cursor, if
\* set, is at or above the deploy block, and the range starts at the deploy
\* block without a cursor and at max(deploy block, cursor - 10) with one.
C7_ScanRange ==
  (pc \in {"logs", "ts"} /\ deployBlockRef # Null)
    => /\ (cursorRef # Null => cursorRef >= deployBlockRef)
       /\ fromBlock = IF cursorRef = Null THEN deployBlockRef
                      ELSE Max(deployBlockRef, cursorRef - Overlap)
       /\ fromBlock <= latest

--------------------------------------------------------------------------
(* C8  the cursor never decreases                                         *)

--------------------------------------------------------------------------
(* C9  results of a cancelled cycle                                       *)

\* C9: once the key has changed to another one, or the hook is unmounted,
\* the steps of the cycle still in flight do not change points, and do not
\* set the cursor or the deploy block of the hook.
C9_Discarded ==
  /\ [][(CycleStep /\ mounted /\ cycKey # key)
          => UNCHANGED << points, cursorRef, deployBlockRef >>]_vars
  /\ [][(CycleStep /\ ~mounted) => UNCHANGED points]_vars

--------------------------------------------------------------------------
(* C10  per-entity state after a key change                               *)

\* C10: a cycle that started for the rendered key scans with a deploy block
\* and a cursor that a cycle for that same key resolved, loaded or set.
C10_FreshState ==
  (pc \in {"logs", "ts"} /\ mounted /\ stable /\ cycKey = key)
    => /\ owner.deploy = key
       /\ owner.cursor \in {key, NoKey}

--------------------------------------------------------------------------
(* mergeTrades: helpers of C11 - C13                                      *)

KeysOf(s) == {keyOf(s[i]) : i \in 1..Len(s)}
RecordsOf(s) == {s[i] : i \in 1..Len(s)}

\* the last record of s stored under key k
LastWithKey(s, k) ==
  s[CHOOSE i \in 1..Len(s) :
      /\ keyOf(s[i]) = k
      /\ \A j \in (i + 1)..Len(s) : keyOf(s[j]) # k]

\* the records of s stored under key k
WithKey(s, k) == {r \in RecordsOf(s) : keyOf(r) = k}

\* A and B hold one trade under different records (another timestamp)
Disagree(A, B) ==
  \E i \in 1..Len(A), j \in 1..Len(B) : keyOf(A[i]) = keyOf(B[j]) /\ A[i] # B[j]

--------------------------------------------------------------------------
(* C11  merge is idempotent and leaves its arguments alone                *)

\* C11: merge(merge(A,B),B) = merge(A,B) for all argument arrays A and B, and
\* a call of merge leaves the arrays it was given as they were.
C11_Idempotent ==
  /\ [](mergeCall.pc \in {"abb", "done"} => mergeCall.ABB = mergeCall.AB)
  /\ [][mergeCall.pc # "off"
         => /\ mergeCall'.A = mergeCall.A
            /\ mergeCall'.B = mergeCall.B
            /\ (mergeCall.pc # "args" => mergeCall'.AB = mergeCall.AB)]_vars

\* merged twice: unsorted arguments that hold one trade under two records,
\* and a result that differs from both arguments
C11_Witness ==
  /\ mergeCall.pc = "abb"
  /\ Disagree(mergeCall.A, mergeCall.B)
  /\ Len(mergeCall.B) >= 2 /\ mergeCall.B # SortTrades(mergeCall.B)
  /\ mergeCall.AB # mergeCall.A /\ mergeCall.AB # mergeCall.B
  /\ mergeCall.ABB = mergeCall.AB

--------------------------------------------------------------------------
(* C12  merge(A,B) against merge(B,A)                                     *)

--------------------------------------------------------------------------
(* C13  incoming wins on a key collision                                  *)

\* C13: merge(known, incoming) holds exactly one record per key of either
\* argument: under a key of incoming the last incoming record with that key,
\* under a key of known alone the (last) known record with that key.
C13_IncomingWins ==
  mergeCall.pc \in {"ab", "abb", "done"} =>
    /\ KeysOf(mergeCall.AB) = KeysOf(mergeCall.A) \cup KeysOf(mergeCall.B)
    /\ Len(mergeCall.AB) = Cardinality(KeysOf(mergeCall.AB))
    /\ \A k \in KeysOf(mergeCall.B) :
         WithKey(mergeCall.AB, k) = {LastWithKey(mergeCall.B, k)}
    /\ \A k \in KeysOf(mergeCall.A) \ KeysOf(mergeCall.B) :
         WithKey(mergeCall.AB, k) = {LastWithKey(mergeCall.A, k)}

\* known holds a trade with its timestamp resolved and a trade of its own;
\* incoming holds the first trade twice, last with timestamp 0
C13_Witness ==
  /\ mergeCall.pc = "ab"
  /\ Len(mergeCall.B) = 2 /\ keyOf(mergeCall.B[1]) = keyOf(mergeCall.B[2])
  /\ mergeCall.B[1] # mergeCall.B[2] /\ mergeCall.B[2].timestamp = 0
  /\ \E i \in 1..Len(mergeCall.A) :
       keyOf(mergeCall.A[i]) = keyOf(mergeCall.B[2]) /\ mergeCall.A[i].timestamp # 0
  /\ KeysOf(mergeCall.A) \ KeysOf(mergeCall.B) # {}
  /\ mergeCall.B[2] \in RecordsOf(mergeCall.AB)

--------------------------------------------------------------------------
(* getLogsChunked: helpers of C14 and C15                                 *)

\* how many times the sub-range q was requested
TimesRequested(q) ==
  Cardinality({i \in 1..Len(chunkCall.reqs) : chunkCall.reqs[i] = q})

\* no attempt of the call has failed: no sub-range was requested twice
AllSucceeded ==
  \A i, j \in 1..Len(chunkCall.reqs) : i # j => chunkCall.reqs[i] # chunkCall.reqs[j]

\* ceil((toBlock - fromBlock + 1) / 500), 0 for an empty range
ChunkCount(f, t) ==
  IF f > t THEN 0 ELSE (t - f + 1 + (LOG_CHUNK_SIZE - 1)) \div LOG_CHUNK_SIZE

\* the last attempt on a sub-range has failed and its backoff is running
Exhausted == chunkCall.pc = "backoff" /\ chunkCall.attempt = MaxAttempts - 1

--------------------------------------------------------------------------
(* C14  three attempts per sub-range, then the call fails                 *)

\* C14: no sub-range is requested more than 3 times; after a successful
\* attempt the sub-range is not requested again; when the third attempt on
\* a sub-range has failed the call throws the error of that attempt,
\* returns no logs and sends no further request; a call that returns,
\* returns every log of the range (nothing is skipped).
C14_Retries ==
  /\ [](chunkCall.pc # "off" =>
         /\ \A i \in 1..Len(chunkCall.reqs) : TimesRequested(chunkCall.reqs[i]) <= 3
         /\ (chunkCall.pc = "getLogs" => chunkCall.attempt < 3)
         /\ (chunkCall.pc = "thrown" =>
               /\ chunkCall.thrown # NoErr /\ chunkCall.thrown = chunkCall.lastErr
               /\ chunkCall.result = <<>>
               /\ TimesRequested(chunkCall.reqs[Len(chunkCall.reqs)]) = 3)
         /\ (chunkCall.pc = "returned" =>
               chunkCall.result = GetLogs("a", chunkCall.topic,
                                          chunkCall.fromBlock, chunkCall.toBlock)))
  /\ [][ChunkLogsOk =>
          \/ chunkCall'.pc = "returned" /\ chunkCall'.reqs = chunkCall.reqs
          \/ /\ chunkCall'.reqs = Append(chunkCall.reqs, chunkCall'.reqs[Len(chunkCall'.reqs)])
             /\ chunkCall'.reqs[Len(chunkCall'.reqs)].fromBlock
                  = chunkCall.reqs[Len(chunkCall.reqs)].toBlock + 1]_vars
  /\ [][\A e \in ChunkErrors : ChunkLogsFail(e) => chunkCall'.lastErr = e]_vars
  /\ [][(Exhausted /\ ChunkBackoffDone) =>
          /\ chunkCall'.pc = "thrown"
          /\ chunkCall'.thrown = chunkCall.lastErr
          /\ chunkCall'.reqs = chunkCall.reqs
          /\ chunkCall'.result = <<>>]_vars

\* the call has thrown on its second sub-range, after the first one
\* succeeded on a retry and delivered logs that are not returned
C14_Witness ==
  /\ chunkCall.pc = "thrown" /\ chunkCall.thrown = "timeout"
  /\ Len(chunkCall.reqs) = 5 /\ chunkCall.reqs[1] = chunkCall.reqs[2]
  /\ chunkCall.reqs[3] = chunkCall.reqs[5] /\ chunkCall.reqs[3] # chunkCall.reqs[2]
  /\ chunkCall.logs # <<>> /\ chunkCall.result = <<>>
  /\ chunkCall.reqs[5].toBlock < chunkCall.toBlock

--------------------------------------------------------------------------
(* C15  the sub-ranges of a call whose requests all succeed               *)

\* C15: when no attempt failed, a call that has returned has sent exactly
\* ceil((toBlock - fromBlock + 1)/500) requests, in ascending order, each
\* at most 500 blocks wide, the first starting at fromBlock, each next one
\* starting right after the previous one, the last ending at toBlock; none
\* when fromBlock > toBlock; for [0,1999] the four ranges [0,499],
\* [500,999], [1000,1499], [1500,1999].
C15_SubRanges ==
  (chunkCall.pc = "returned" /\ AllSucceeded) =>
    LET f == chunkCall.fromBlock
        t == chunkCall.toBlock
        q == chunkCall.reqs
        n == Len(q)
    IN /\ n = ChunkCount(f, t)
       /\ (f > t => q = <<>>)
       /\ (n > 0 => q[1].fromBlock = f /\ q[n].toBlock = t)
       /\ \A i \in 1..n : /\ q[i].fromBlock <= q[i].toBlock
                           /\ q[i].toBlock - q[i].fromBlock + 1 <= LOG_CHUNK_SIZE
       /\ \A i \in 1..(n - 1) : q[i + 1].fromBlock = q[i].toBlock + 1
       /\ ((f = 0 /\ t = 1999) =>
             q = << [fromBlock |-> 0, toBlock |-> 499],
                    [fromBlock |-> 500, toBlock |-> 999],
                    [fromBlock |-> 1000, toBlock |-> 1499],
                    [fromBlock |-> 1500, toBlock |-> 1999] >>)

\* the call over [0,1999] has returned after four requests, with logs
C15_Witness ==
  /\ chunkCall.pc = "returned" /\ AllSucceeded
  /\ chunkCall.fromBlock = 0 /\ chunkCall.toBlock = 1999
  /\ Len(chunkCall.reqs) = 4 /\ Len(chunkCall.result) >= 2

--------------------------------------------------------------------------
(* C16  the deploy block found by the search                              *)

\* C16: when code exists from block D on and D <= latest, a call that
\* returns, returns max(0, D - 5) (and the search itself found D); for
\* D = 1000 the result lies in [995, 1000].
C16_DeployBlock ==
  (resolveCall.pc = "returned" /\ resolveCall.D <= resolveCall.latest) =>
    /\ resolveCall.found = resolveCall.D
    /\ resolveCall.ret = Max(0, resolveCall.D - 5)
    /\ (resolveCall.D = 1000 => resolveCall.ret \in 995..1000)

\* the search has returned for a contract deployed at block 1000, after
\* queries on both sides of the boundary
C16_Witness ==
  /\ resolveCall.pc = "returned" /\ resolveCall.D = 1000
  /\ resolveCall.latest > 1000 /\ resolveCall.ret = 995
  /\ \E i, j \in 1..Len(resolveCall.queries) :
       resolveCall.queries[i] = 999 /\ resolveCall.queries[j] = 1000

--------------------------------------------------------------------------
(* C17  no code at the latest block                                       *)

\* C17: when there is no code at the latest block, the answer to the first
\* getCode ends the call: it returns max(0, latest - 12000), it has sent
\* that one query only, it never enters the search and it does not throw.
C17_Fallback ==
  /\ []((resolveCall.pc # "off" /\ resolveCall.D > resolveCall.latest) =>
          /\ resolveCall.pc # "search"
          /\ Len(resolveCall.queries) <= 1
          /\ (resolveCall.pc = "returned" =>
                /\ resolveCall.ret = Max(0, resolveCall.latest - 12000)
                /\ resolveCall.queries = <<resolveCall.latest>>))
  /\ [][(ResolveCodeLatest /\ resolveCall.D > resolveCall.latest)
          => resolveCall'.pc = "returned"]_vars

\* the fast path has returned a block above 0 for a chain longer than the
\* fallback window
C17_Witness ==
  /\ resolveCall.pc = "returned" /\ resolveCall.D > resolveCall.latest
  /\ resolveCall.latest > 12000
  /\ resolveCall.ret = resolveCall.latest - 12000 /\ resolveCall.ret > 0
  /\ Len(resolveCall.queries) = 1

--------------------------------------------------------------------------
(* C18  the deploy block of an entity, once resolved                      *)

\* C18: once the deploy block of a key is resolved and cached, the cached
\* value never changes, and every later cycle for that key goes from
\* getBlockNumber straight to the scan, without a code-existence query, and
\* scans with that value as its deploy block.
C18_ResolvedOnce ==
  /\ [][\A k \in Keys : lsDeploy[k] # Null => lsDeploy'[k] = lsDeploy[k]]_vars
  /\ [][(pc = "latest" /\ lsDeploy[cycKey] # Null) => pc' # "deploy"]_vars
  /\ [][(pc = "latest" /\ pc' = "logs" /\ lsDeploy[cycKey] # Null)
          => /\ deployBlockRef' = lsDeploy[cycKey]
             /\ fromBlock' >= lsDeploy[cycKey]]_vars

--------------------------------------------------------------------------
(* C19  one timestamp lookup per block                                    *)

\* the blocks the timestamp loop still has to look up
TsPending == {tsTodo[i] : i \in 1..Len(tsTodo)}

\* the blocks whose timestamp an earlier cycle obtained: a trade on display
\* carries it
TsKnown == {points[i].blockNumber : i \in {j \in 1..Len(points) : points[j].timestamp # 0}}

\* C19: the timestamp loop looks up each block of the cycle's trades once
\* (no block twice, none whose timestamp this cycle already holds), and
\* never a block whose timestamp an earlier cycle has obtained.
C19_LookupOnce ==
  pc = "ts" =>
    /\ Cardinality(TsPending) = Len(tsTodo)
    /\ TsPending \cap DOMAIN blockTs = {}
    /\ TsPending \cap TsKnown = {}

--------------------------------------------------------------------------
(* C20  a failed timestamp lookup                                         *)

\* the blocks of the cycle's trades whose lookup has failed
TsFailed == {combined[i].blockNumber : i \in 1..Len(combined)} \ (DOMAIN blockTs \cup TsPending)

\* C20: no step of the timestamp loop fails the cycle; on the step that
\* ends the loop the cursor becomes the latest block of the cycle and, for
\* a mounted hook, every trade of a block whose lookup failed is in points
\* with timestamp 0.
C20_UnresolvedKept ==
  /\ [][pc = "ts" => ~FailStep]_vars
  /\ [][(pc = "ts" /\ pc' = "idle") =>
          /\ SuccessStep
          /\ cursorRef' = latest
          /\ (mounted =>
                \A i \in 1..Len(combined) :
                   (\/ combined[i].blockNumber \in TsFailed
                    \/ combined[i].blockNumber = Head(tsTodo) /\ BlockReply(FALSE))
                     => \E j \in 1..Len(points') :
                          points'[j] = [combined[i] EXCEPT !.timestamp = 0])]_vars

\* a cycle has just succeeded with one lookup failed and another answered:
\* a trade with timestamp 0 is on display next to a resolved one
C20_Witness ==
  /\ mounted /\ pc = "idle" /\ last.res = "ok" /\ cursorRef = head
  /\ \E i, j \in 1..Len(points) :
       /\ points[i].timestamp = 0 /\ points[j].timestamp # 0
       /\ points[i].blockNumber # points[j].blockNumber

--------------------------------------------------------------------------
(* Candles                                                                *)

\* the trades are in time order
TimeOrdered(s) == \A i \in 1..Len(s) - 1 : s[i].timestamp <= s[i + 1].timestamp

\* the positions of the trades of s that fall into the bucket starting at b
InBucket(s, b, w) == {i \in 1..Len(s) : (s[i].timestamp \div w) * w = b}

SetMin(S) == CHOOSE x \in S : \A y \in S : x <= y
SetMax(S) == CHOOSE x \in S : \A y \in S : x >= y

RECURSIVE VolumeSum(_, _)
VolumeSum(s, idx) ==
  IF idx = {} THEN 0
  ELSE LET i == SetMin(idx) IN s[i].volume + VolumeSum(s, idx \ {i})

\* every trade of s has a bar at its bucket, and every bar carries the
\* open, close, high, low and volume of the trades of its bucket
BarsAgree(bars, s, w) ==
  /\ \A i \in 1..Len(s) :
       \E j \in 1..Len(bars.candles) :
         bars.candles[j].time = (s[i].timestamp \div w) * w
  /\ Len(bars.volumes) = Len(bars.candles)
  /\ \A j \in 1..Len(bars.candles) :
       LET c == bars.candles[j]
           idx == InBucket(s, c.time, w)
       IN /\ idx # {}
          /\ c.open = s[SetMin(idx)].price
          /\ c.close = s[SetMax(idx)].price
          /\ \A i \in idx : c.low <= s[i].price /\ s[i].price <= c.high
          /\ \E i \in idx : c.high = s[i].price
          /\ \E i \in idx : c.low = s[i].price
          /\ bars.volumes[j].time = c.time
          /\ bars.volumes[j].value = VolumeSum(s, idx)

ExampleTrades ==
  << [timestamp |-> 100, price |-> 10, volume |-> 2],
     [timestamp |-> 101, price |-> 12, volume |-> 3],
     [timestamp |-> 130, price |-> 9,  volume |-> 1] >>

ExampleCandles ==
  << [time |-> 60,  open |-> 10, high |-> 12, low |-> 10, close |-> 12],
     [time |-> 120, open |-> 9,  high |-> 9,  low |-> 9,  close |-> 9] >>

BuildDone == candleCall.pc \in {"built", "curve", "tv", "apply", "done", "applied"}
TvDone == candleCall.pc \in {"tv", "apply", "done", "applied"}

\* C21: a full rebuild over trades in time order puts every retained trade
\* in the bucket floor(timestamp / w) * w, and each bucket's bar has the
\* price of its first trade as open, of its last trade as close, the
\* largest and smallest price as high and low and the sum of the volumes;
\* the three trades at 100, 101 and 130 with w = 60 give the bars
\* 60 = (1.0, 1.2, 1.0, 1.2) and 120 = (0.9, 0.9, 0.9, 0.9)
C21_Buckets ==
  /\ (BuildDone /\ TimeOrdered(BuildFilter(candleCall.trades)))
       => BarsAgree(candleCall.built, BuildFilter(candleCall.trades), candleCall.width)
  /\ (TvDone /\ TimeOrdered(TvFilter(candleCall.trades)))
       => BarsAgree(candleCall.tv, TvFilter(candleCall.trades), candleCall.width)
  /\ (TvDone /\ candleCall.trades = ExampleTrades /\ candleCall.width = 60)
       => /\ candleCall.built.candles = ExampleCandles
          /\ candleCall.tv.candles = ExampleCandles

C21_Witness ==
  /\ candleCall.pc = "tv"
  /\ candleCall.trades = ExampleTrades
  /\ candleCall.width = 60
  /\ Len(candleCall.tv.candles) = 2
  /\ candleCall.built.candles[1].close = 12

StrictlyAscending(bars) ==
  \A j \in 1..Len(bars) - 1 : bars[j].time < bars[j + 1].time

BucketsOf(s, w) == {(s[i].timestamp \div w) * w : i \in 1..Len(s)}

BarTimes(bars) == {bars[j].time : j \in 1..Len(bars)}

\* C22: a full rebuild emits exactly one candle for every bucket that
\* holds a retained trade, in strictly ascending bucket order, and no row
\* for a bucket without trades
C22_OnePerBucket ==
  /\ BuildDone =>
       /\ StrictlyAscending(candleCall.built.candles)
       /\ StrictlyAscending(candleCall.built.volumes)
       /\ BarTimes(candleCall.built.candles)
            = BucketsOf(BuildFilter(candleCall.trades), candleCall.width)
       /\ BarTimes(candleCall.built.volumes) = BarTimes(candleCall.built.candles)
  /\ TvDone =>
       /\ StrictlyAscending(candleCall.tv.candles)
       /\ StrictlyAscending(candleCall.tv.volumes)
       /\ BarTimes(candleCall.tv.candles)
            = BucketsOf(TvFilter(candleCall.trades), candleCall.width)
       /\ BarTimes(candleCall.tv.volumes) = BarTimes(candleCall.tv.candles)

\* two trades with an empty bucket between them, given out of order
C22_Witness ==
  /\ candleCall.pc = "tv"
  /\ candleCall.width = 15
  /\ candleCall.trades = << ExampleTrades[3], ExampleTrades[1] >>
  /\ BarTimes(candleCall.built.candles) = {90, 120}
  /\ Len(candleCall.tv.candles) = 2

\* C23: for trades in time order split into a non-empty prefix and a
\* suffix, the last bars of the prefix's rebuild, updated by applyTrade
\* with each trade of the suffix in order, equal the last bars of the
\* rebuild of the whole sequence in bucket start, open, high, low, close
\* and volume
C23_Equivalence ==
  (/\ candleCall.pc \in {"apply", "done"}
   /\ candleCall.lastCandle # NoBar
   /\ TimeOrdered(TvFilter(candleCall.trades)))
    => /\ LET sofar == toCandlesAndVolume(SubSeq(candleCall.trades, 1, candleCall.prevLen),
                                          candleCall.width)
          IN /\ candleCall.lastCandle = LastOf(sofar.candles)
             /\ candleCall.lastVol = LastOf(sofar.volumes)
       /\ candleCall.pc = "done" =>
            /\ candleCall.lastCandle = LastOf(candleCall.tv.candles)
            /\ candleCall.lastVol = LastOf(candleCall.tv.volumes)

\* the example rebuilt from its first trade, the other two applied
C23_Witness ==
  /\ candleCall.pc = "done"
  /\ candleCall.trades = ExampleTrades
  /\ candleCall.width = 60
  /\ candleCall.base = 1
  /\ candleCall.prevLen = 3
  /\ candleCall.lastCandle = ExampleCandles[2]
  /\ candleCall.lastVol = [time |-> 120, value |-> 1]

\* C24: applyTrade starts a new bar with open = high = low = close = the
\* trade's price and volume = the trade's volume when there is no last bar
\* or the trade's bucket differs from the last bar's; otherwise it sets
\* high and low to the max and min with the price, close to the price and
\* adds the trade's volume, leaving open and the bucket start unchanged
C24_ApplyTrade ==
  candleCall.pc = "applied" =>
    LET tr == candleCall.arg.trade
        lc == candleCall.arg.lastCandle
        lv == candleCall.arg.lastVol
        b == (tr.timestamp \div candleCall.width) * candleCall.width
        starts == IF lc = NoBar THEN TRUE ELSE lc.time # b
    IN IF starts
       THEN /\ candleCall.lastCandle = [time |-> b, open |-> tr.price, high |-> tr.price,
                                        low |-> tr.price, close |-> tr.price]
            /\ candleCall.lastVol = [time |-> b, value |-> tr.volume]
       ELSE /\ candleCall.lastCandle.time = lc.time
            /\ candleCall.lastCandle.open = lc.open
            /\ candleCall.lastCandle.high = Max(lc.high, tr.price)
            /\ candleCall.lastCandle.low = Min(lc.low, tr.price)
            /\ candleCall.lastCandle.close = tr.price
            /\ candleCall.lastVol.time = lc.time
            /\ candleCall.lastVol.value = lv.value + tr.volume

\* a trade applied to the bar of its own bucket, at another price
C24_Witness ==
  /\ candleCall.pc = "applied"
  /\ candleCall.arg.lastCandle # NoBar
  /\ candleCall.arg.lastCandle.time = candleCall.lastCandle.time
  /\ candleCall.arg.lastCandle.open # candleCall.arg.trade.price
  /\ candleCall.lastCandle.open = candleCall.arg.lastCandle.open
  /\ candleCall.lastCandle.close = candleCall.arg.trade.price

\* the trades with a finite, positive timestamp and price
Positive(s) ==
  SelectSeq(s, LAMBDA t : /\ t.timestamp # NotFinite /\ t.price # NotFinite
                            /\ t.timestamp > 0 /\ t.price > 0)

\* C25: trades with a non-finite or non-positive price or timestamp, such
\* as a trade whose timestamp is still 0, are left out by the full rebuild:
\* the bars are those of the other trades alone
C25_Filtered ==
  /\ candleCall.pc \in {"curve", "tv", "apply", "done", "applied"} =>
       /\ BarTimes(candleCall.curve.candles)
            = BucketsOf(Positive(candleCall.trades), candleCall.width)
       /\ TimeOrdered(Positive(candleCall.trades))
            => BarsAgree(candleCall.curve, Positive(candleCall.trades), candleCall.width)
  /\ TvDone =>
       /\ BarTimes(candleCall.tv.candles)
            = BucketsOf(Positive(candleCall.trades), candleCall.width)
       /\ TimeOrdered(Positive(candleCall.trades))
            => BarsAgree(candleCall.tv, Positive(candleCall.trades), candleCall.width)

--------------------------------------------------------------------------
(* The refresh cycle, continued                                           *)

\* the logs of campaign k in blocks from..to, by position in the chain
LogsIn(k, from, to) ==
  {i \in 1..Len(ChainLogSeq) : /\ ChainLogSeq[i].address = k
                               /\ ChainLogSeq[i].blockNumber >= from
                               /\ ChainLogSeq[i].blockNumber <= to}

LogKey(i) == <<ChainLogSeq[i].transactionHash, ChainLogSeq[i].index>>

Decodable(k, from, to) == {LogKey(i) : i \in {j \in LogsIn(k, from, to) : ChainLogSeq[j].ok}}
Undecodable(k, from, to) == {LogKey(i) : i \in {j \in LogsIn(k, from, to) : ~ChainLogSeq[j].ok}}

Occurrences(s, k) == Cardinality({i \in 1..Len(s) : keyOf(s[i]) = k})

\* C26: a log that cannot be decoded is dropped without failing the
\* cycle: the batch it came in is normalized to exactly one trade per
\* decodable log, those trades are merged into points, and the cursor
\* advances to the scanned head
C26_BadLogDropped ==
  /\ [](pc = "ts" =>
          /\ KeysOf(combined) = Decodable(cycKey, fromBlock, latest)
          /\ Len(combined) = Cardinality(Decodable(cycKey, fromBlock, latest)))
  /\ [][(/\ pc = "logs"
         /\ Undecodable(cycKey, fromBlock, latest) # {}
         /\ \A t \in Topics : fetch[t].done \/ fetch[t].start + LOG_CHUNK_SIZE > latest
         /\ \E t \in Topics : fetch[t].done
         /\ pc' # pc
         /\ last'.res # "failed")
        => /\ pc' \in {"ts", "idle"}
           /\ pc' = "idle" => Decodable(cycKey, fromBlock, latest) = {}
           /\ pc' = "idle" => cursorRef' = latest /\ last'.res = "ok"]_vars
  /\ [][(SuccessStep /\ Undecodable(cycKey, fromBlock, latest) # {})
        => /\ cursorRef' = latest
           /\ mounted =>
                /\ error' = NoError
                /\ \A k \in Decodable(cycKey, fromBlock, latest) : Occurrences(points', k) = 1
                /\ KeysOf(points') \cap Undecodable(cycKey, fromBlock, latest) = {}]_vars

\* campaign b after a cycle over blocks 1005..1600: the trade of block 1012
\* is in points, the undecodable log of block 1013 is not, the cursor is
\* at the head
C26_Witness ==
  /\ pc = "idle"
  /\ mounted
  /\ key = "b"
  /\ last.res = "ok"
  /\ KeysOf(points) = {<<"t3", 2>>}
  /\ cursorRef = 1600
  /\ error = NoError

\* how far a cycle has come
Rank(p) ==
  CASE p = "latest" -> 0
    [] p = "deploy" -> 1
    [] p = "logs" -> 2
    [] p = "ts" -> 3
    [] OTHER -> 4

\* the getLogsChunked call with state g is further on than with state f
Further(f, g) ==
  \/ g.start > f.start
  \/ g.start = f.start /\ g.attempt > f.attempt /\ ~f.done /\ ~g.done
  \/ g.start = f.start /\ g.done /\ ~f.done

\* C27: the cycle goes Idle -> Scanning -> Idle, or through a failure back
\* to Idle: the in-flight flag is set exactly while a cycle runs, every
\* step of a cycle brings it nearer its end, every step that ends it, by
\* success or by any error, clears the flag, and at idle a trigger starts
\* a new cycle
C27_FlagCleared ==
  /\ [](inFlightRef <=> pc # "idle")
  /\ [](pc # "idle" => Outstanding # {})
  /\ [][(pc = "idle" /\ pc' # "idle") => (pc' = "latest" /\ inFlightRef')]_vars
  /\ [][CycleStep =>
          \/ Rank(pc') > Rank(pc)
          \/ /\ pc = "logs" /\ pc' = "logs"
             /\ \E t \in Topics : /\ Further(fetch[t], fetch'[t])
                                  /\ \A u \in Topics \ {t} : fetch'[u] = fetch[u]
             /\ \A t \in Topics : fetch'[t].attempt < MaxAttempts /\ fetch'[t].start <= latest
          \/ /\ pc = "ts" /\ pc' = "ts"
             /\ Len(tsTodo') < Len(tsTodo)]_vars
  /\ [][(pc # "idle" /\ pc' = "idle")
        => (~inFlightRef' /\ last'.res \in {"ok", "failed"})]_vars
  /\ [][(last'.res = "failed" /\ last.res # "failed") => (pc # "idle" /\ ~inFlightRef')]_vars
  /\ []((mounted /\ key # NoKey /\ pc = "idle")
          => ENABLED (OnBlock /\ pc' = "latest" /\ inFlightRef'))

\* idle again after a failed cycle, flag down
C27_Witness ==
  /\ pc = "idle"
  /\ last.res = "failed"
  /\ ~inFlightRef
  /\ mounted
  /\ key # NoKey

\* C28: tearing down an entity key, by unmounting or by switching to
\* another key, removes its block listener and its interval, at whatever
\* point a fetch is: afterwards neither starts a cycle for that key, and
\* the teardown goes through while a fetch is in flight
C28_Teardown ==
  /\ [](blockListeners = (IF mounted /\ key # NoKey THEN {key} ELSE {}))
  /\ [](intervalTimers = (IF mounted /\ key # NoKey THEN {key} ELSE {}))
  /\ [][(pc = "idle" /\ pc' # "idle") => (mounted' /\ cycKey' = key')]_vars
  /\ [][(~mounted /\ ~mounted') => (pc' = "idle" \/ pc # "idle")]_vars
  /\ [](mounted => ENABLED Unmount)
  /\ [][(mounted /\ ~mounted')
        => (pc' = pc /\ inFlightRef' = inFlightRef /\ error' = error)]_vars

\* torn down with a fetch in flight
C28_Witness ==
  /\ ~mounted
  /\ key # NoKey
  /\ pc = "logs"
  /\ blockListeners = {}
  /\ intervalTimers = {}

\* C29: points only grows: while the instance stays mounted on one entity
\* key, over successful and failed cycles alike, no (transactionHash,
\* logIndex) key ever leaves points
C29_AppendOnly ==
  [][(mounted /\ mounted' /\ key' = key) => KeysOf(points) \subseteq KeysOf(points')]_vars

\* three trades gathered over two cycles, still there after a failed third
C29_Witness ==
  /\ mounted
  /\ key = "a"
  /\ pc = "idle"
  /\ last.res = "failed"
  /\ Cardinality(KeysOf(points)) = 3

\* C30: whenever the instance is idle with a cursor set for its current
\* entity, points holds every decodable purchase and sale event of that
\* entity in the blocks from the deploy block to the cursor, also after a
\* re-mount or after the key was switched away and back
C30_CompleteUpToCursor ==
  (/\ mounted
   /\ key # NoKey
   /\ pc = "idle"
   /\ cursorRef # Null
   /\ deployBlockRef # Null
   /\ owner.cursor = key
   /\ owner.deploy = key)
    => Decodable(key, deployBlockRef, cursorRef) \subseteq KeysOf(points)

\* C31: over the cycles of one entity, a trade of points whose timestamp
\* has been resolved to a non-zero value never goes back to timestamp 0: a
\* record seen again in the overlap re-scan with an unresolved timestamp
\* does not replace the resolved one
C31_NoTimestampRegression ==
  [][(mounted /\ mounted' /\ key' = key)
     => \A i \in 1..Len(points), j \in 1..Len(points') :
          (points[i].timestamp # 0 /\ keyOf(points'[j]) = keyOf(points[i]))
            => points'[j].timestamp # 0]_vars

\* C32: if the instance stays on one entity, refresh cycles keep being
\* started by the triggers and keep succeeding, then every decodable trade
\* event of that entity at a block at or below the chain head is
\* eventually, and from then on, contained in points
C32_EventuallyComplete ==
  \A k \in Keys :
    (/\ <>[](mounted /\ key = k)
     /\ []<>(pc = "latest")
     /\ []<>(pc = "idle" /\ last.res = "ok"))
      => <>[](Decodable(k, 0, head) \subseteq KeysOf(points))

\* C33: in TradingViewChart every trade of a grown trades array is
\* reflected exactly once in the tracked last bars: the last candle and
\* volume bar are those of a rebuild of all trades, the volume bar is the
\* sum of the volumes of the trades of its bucket, and prevLen is the
\* number of trades reflected
C33_ReflectedOnce ==
  (tvChart.pc = "ready") =>
    LET bars == toCandlesAndVolume(tvChart.trades, tvChart.interval)
        kept == TvFilter(tvChart.trades)
    IN /\ tvChart.refs.prevLen = Len(tvChart.trades)
       /\ tvChart.refs.lastCandle = LastOf(bars.candles)
       /\ tvChart.refs.lastVol = LastOf(bars.volumes)
       /\ tvChart.refs.lastVol # NoBar =>
            tvChart.refs.lastVol.value
              = VolumeSum(kept, InBucket(kept, tvChart.refs.lastVol.time, tvChart.interval))

\* the example's third trade arrived after the first two were drawn
C33_Witness ==
  /\ tvChart.pc = "ready"
  /\ tvChart.renders = 1
  /\ tvChart.trades = ExampleTrades
  /\ tvChart.interval = 15
  /\ tvChart.refs.prevLen = 3
  /\ tvChart.refs.lastVol = [time |-> 120, value |-> 1]

\* C34: in useDexPairTrades, once an effect is torn down, before or after
\* its load completes, no Sync listener it registered stays subscribed and
\* no result of its load is applied to points, error or loading
C34_DexTeardown ==
  /\ [](\A e \in DexEffects :
          (dexHook.pc = "on" /\ dexHook.cancelled[e] /\ dexHook.at[e] \in {"done", "failed"})
            => e \notin dexHook.listeners)
  /\ [][\A e \in DexEffects :
          (dexHook.pc = "on" /\ dexHook.cancelled[e] /\ dexHook'.at[e] # dexHook.at[e])
            => /\ dexHook'.points = dexHook.points
               /\ dexHook'.error = dexHook.error
               /\ dexHook'.loading = dexHook.loading]_vars

\* C35: persisted state is keyed by entity: a refresh cycle writes only
\* the persisted cursor and deploy-block entries of the entity it was
\* started for, also when the hook's current entity changes while the
\* cycle is in flight; the entries of other entities stay as they are
C35_KeyedWrites ==
  [][\A k \in Keys :
       (lsCursor'[k] # lsCursor[k] \/ lsDeploy'[k] # lsDeploy[k])
         => (pc # "idle" /\ cycKey = k)]_vars

\* a cycle started for a has written a's entries while the hook shows b
C35_Witness ==
  /\ mounted
  /\ key = "b"
  /\ owner.cursor = "a"
  /\ lsCursor["a"] # Null
  /\ lsDeploy["a"] # Null
  /\ lsCursor["b"] = Null
  /\ lsDeploy["b"] = Null

\* low <= open <= high and low <= close <= high
WellFormed(c) ==
  /\ c.low <= c.open /\ c.open <= c.high
  /\ c.low <= c.close /\ c.close <= c.high

AllWellFormed(candles) == \A j \in 1..Len(candles) : WellFormed(candles[j])

\* C36: every candle of a full rebuild, and every candle applyTrade makes
\* from no candle or from a candle with low <= open <= high and
\* low <= close <= high, has low <= open <= high and low <= close <= high
C36_WellFormed ==
  /\ BuildDone => AllWellFormed(candleCall.built.candles)
  /\ candleCall.pc \in {"curve", "tv", "apply", "done", "applied"}
       => AllWellFormed(candleCall.curve.candles)
  /\ TvDone => AllWellFormed(candleCall.tv.candles)
  /\ (candleCall.pc \in {"apply", "done"} /\ candleCall.lastCandle # NoBar)
       => WellFormed(candleCall.lastCandle)
  /\ (/\ candleCall.pc = "applied"
      /\ (candleCall.arg.lastCandle = NoBar \/ WellFormed(candleCall.arg.lastCandle)))
       => WellFormed(candleCall.lastCandle)

\* a bar with three different prices, then lowered by an applied trade
C36_Witness ==
  /\ candleCall.pc = "applied"
  /\ candleCall.arg.lastCandle # NoBar
  /\ candleCall.arg.lastCandle.low < candleCall.arg.lastCandle.high
  /\ candleCall.arg.lastCandle.time = candleCall.lastCandle.time
  /\ candleCall.lastCandle.low < candleCall.arg.lastCandle.low
  /\ candleCall.lastCandle.close = candleCall.lastCandle.low
  /\ candleCall.lastCandle.open > candleCall.lastCandle.low

RECURSIVE CeilLog2(_)
\* the least e with 2^e >= n
CeilLog2(n) == IF n <= 1 THEN 0 ELSE 1 + CeilLog2((n + 1) \div 2)

\* 1 + ceil(log2(latest + 1)) + 1
QueryBound(l) == 1 + CeilLog2(l + 1) + 1

\* C38: for every latest block and every code-existence predicate the
\* resolution ends; each round of the search strictly shrinks [lo, hi], at
\* most 1 + ceil(log2(latest + 1)) + 1 queries are sent, and the result is
\* within [0, latest]
C38_Terminates ==
  /\ <>(resolveCall.pc \in {"returned", "thrown"})
  /\ [][ResolveCodeMid =>
          (resolveCall'.hi - resolveCall'.lo) < (resolveCall.hi - resolveCall.lo)]_vars
  /\ [](resolveCall.pc # "off" =>
          Len(resolveCall.queries) <= QueryBound(resolveCall.latest))
  /\ [](resolveCall.pc = "returned" =>
          (0 <= resolveCall.ret /\ resolveCall.ret <= resolveCall.latest))

\* a search on a chain whose code comes and goes, ended with as many
\* queries as the bound allows
C38_Witness ==
  /\ resolveCall.pc = "returned"
  /\ resolveCall.holes # {}
  /\ resolveCall.latest >= 3
  /\ Len(resolveCall.queries) = QueryBound(resolveCall.latest)

\* the buckets of the trades of the call that have a finite timestamp and
\* a finite price
TradedBuckets ==
  {bucketOf(candleCall.trades[i].timestamp, candleCall.width) :
     i \in {j \in 1..Len(candleCall.trades) :
              /\ IsFinite(candleCall.trades[j].timestamp)
              /\ IsFinite(candleCall.trades[j].price)}}

\* the last bucket as the options of the call ask for it
LastWanted ==
  IF candleCall.opts.extendToNow
  THEN Max(SetMax(TradedBuckets),
           bucketOf(IF candleCall.opts.nowSec # Null THEN candleCall.opts.nowSec
                    ELSE candleCall.now, candleCall.width))
  ELSE SetMax(TradedBuckets)

Flat(c, close) == c.open = close /\ c.high = close /\ c.low = close /\ c.close = close

\* C39: the gap-filling buildCandles returns one candle for every bucket
\* from the first trade's bucket to the last bucket, in steps of
\* intervalSec; the last bucket is the last trade's bucket, or with
\* extendToNow the later of it and the bucket of now; a bucket without
\* trades is flat at the close of the nearest earlier bucket with trades
C39_GapFilled ==
  (candleCall.pc = "filled" /\ TradedBuckets # {}) =>
    LET out == candleCall.filled
        first == SetMin(TradedBuckets)
    IN /\ Len(out) = ((LastWanted - first) \div candleCall.width) + 1
       /\ \A j \in 1..Len(out) :
            /\ out[j].time = first + (j - 1) * candleCall.width
            /\ out[j].time \notin TradedBuckets =>
                 LET earlier == {i \in 1..(j - 1) : out[i].time \in TradedBuckets}
                 IN /\ earlier # {}
                    /\ Flat(out[j], out[SetMax(earlier)].close)

\* a call with extendToNow whose candles run past a gap between traded
\* buckets and on, past the last trade, to the bucket of now
C39_Witness ==
  /\ candleCall.pc = "filled"
  /\ candleCall.opts.extendToNow
  /\ TradedBuckets # {}
  /\ LastWanted > SetMax(TradedBuckets)
  /\ \E j \in 2..Len(candleCall.filled) - 1 :
       /\ candleCall.filled[j].time \notin TradedBuckets
       /\ candleCall.filled[j + 1].time \in TradedBuckets
       /\ candleCall.filled[j + 1].close # candleCall.filled[j].close
  /\ candleCall.filled[Len(candleCall.filled)].time \notin TradedBuckets

\* the texts that are decimal numbers
DecimalTexts == {"-3", "0", "7", "991", "1000", "1004", "2000"}

\* the entry is there and is a number
Numeric(v) == v.present /\ v.text \in DecimalTexts

\* C37: a cycle whose deploy-block ref is empty uses the persisted deploy
\* block only if the entry is a number with 0 <= value <= latest, and
\* otherwise (absent, not a number, out of range) resolves the block by
\* search and persists it; a cycle whose cursor ref is empty uses the
\* persisted cursor only if the entry is a number with 0 < value <= latest,
\* and otherwise scans from the deploy block
C37_Validated ==
  cacheCall.pc = "logs" =>
    LET d == cacheCall.arg.deployItem
        c == cacheCall.cursorItem
        l == cacheCall.latest
        found == findContractDeployBlock(cacheCall.key, l)
        dOk == Numeric(d) /\ 0 <= NumberOf[d.text] /\ NumberOf[d.text] <= l
        cOk == Numeric(c) /\ 0 < NumberOf[c.text] /\ NumberOf[c.text] <= l
    IN /\ cacheCall.arg.deployBlockRef = Null =>
            IF dOk
            THEN /\ ~cacheCall.searched
                 /\ cacheCall.deployBlockRef = NumberOf[d.text]
                 /\ cacheCall.deployItem = d
            ELSE /\ cacheCall.searched
                 /\ cacheCall.deployBlockRef = found
                 /\ cacheCall.deployItem \in {d, Item(StringOf(found))}
       /\ cacheCall.arg.cursorRef = Null =>
            IF cOk
            THEN /\ cacheCall.cursorRef = NumberOf[c.text]
                 /\ cacheCall.fromBlock =
                      Max(cacheCall.deployBlockRef, NumberOf[c.text] - Overlap)
            ELSE /\ cacheCall.cursorRef = Null
                 /\ cacheCall.fromBlock = cacheCall.deployBlockRef

============================================================================
